---- MODULE Spec2Model ----
(***************************************************************************)
(* Client-side synchronisation of the collaborative canvas                 *)
(* (collabcanvas/src/components/Canvas.tsx, collabcanvas/src/lib/          *)
(* database.ts).  Each client keeps a list of rectangles, applies local    *)
(* creates and drags optimistically, issues durable writes to the          *)
(* canvas_objects table and merges the change events of that table.        *)
(*                                                                         *)
(* Time is counted in ticks; TicksPerMs ticks make one millisecond.  The   *)
(* database stamps rows with now() at full resolution, the browser's Date  *)
(* only has millisecond resolution.                                        *)
(***************************************************************************)
EXTENDS Integers, Sequences, FiniteSets, TLC

\* ---------------------------------------------------------------- constants
WORKSPACE_SIZE == 3000
DEFAULT_RECT_SIZE == 100
MIN_RECT_SIZE == 20
NumColors == 8

\* ------------------------------------------------------------------- bounds
TicksPerMs == 2
MaxTicks == 2
MaxInputs == 2

Clients == {"c1", "c2"}
ActiveCanvas == "cv1"

\* pointer positions of background clicks and drop positions of drags
ClickPoints == {[x |-> -50, y |-> 3050], [x |-> 500, y |-> 500]}
DragPoints == {[x |-> 2950, y |-> -10], [x |-> 700, y |-> 40]}

\* ------------------------------------------------------------------ helpers
Max(a, b) == IF a >= b THEN a ELSE b

Min(a, b) == IF a <= b THEN a ELSE b

NoTs == -1

NoId == [t |-> "none", n |-> 0]

TempId(n) == [t |-> "temp", n |-> n]

DbId(n) == [t |-> "db", n |-> n]

\* useAuth() without a session
NoUser == "none"

\* the account each client is signed in with
UserOf(c) == IF c = "c1" THEN "u1" ELSE "u2"

\* rectangle.id.startsWith('temp-')
IsTempId(id) == id.t = "temp"

\* new Date().toISOString(): the current instant at millisecond resolution
ToISOString(t) == (t \div TicksPerMs) * TicksPerMs

\* value ? Date.parse(value) || 0 : 0 -- milliseconds since the epoch
ParseTimestamp(value) == IF value = NoTs THEN 0 ELSE value \div TicksPerMs

MapRecordToRectangle(record) ==
  [id |-> record.id,
   x |-> record.x,
   y |-> record.y,
   width |-> record.width,
   height |-> record.height,
   color |-> record.color,
   canvasId |-> record.canvas_id,
   updatedAt |-> IF record.updated_at # NoTs THEN record.updated_at
                 ELSE record.created_at]

\* a clamp to the workspace that forgets the size of the rectangle
ClampRectanglePositionNoSize(rectangle, position) ==
  [x |-> Max(0, Min(WORKSPACE_SIZE, position.x)),
   y |-> Max(0, Min(WORKSPACE_SIZE, position.y))]

ClampRectanglePosition(rectangle, position) ==
  [x |-> Max(0, Min(WORKSPACE_SIZE - rectangle.width, position.x)),
   y |-> Max(0, Min(WORKSPACE_SIZE - rectangle.height, position.y))]

\* current.find / current.findIndex by id: first matching index, 0 if none
FindIndex(current, id) ==
  IF \E i \in DOMAIN current : current[i].id = id
  THEN CHOOSE i \in DOMAIN current :
         /\ current[i].id = id
         /\ \A j \in DOMAIN current : current[j].id = id => i <= j
  ELSE 0

HasId(current, id) == \E i \in DOMAIN current : current[i].id = id

\* an updater that moves every rectangle of the list
UpdateRectanglePositionAll(current, id, position, t) ==
  [i \in DOMAIN current |->
     [current[i] EXCEPT
        !.x = ClampRectanglePosition(current[i], position).x,
        !.y = ClampRectanglePosition(current[i], position).y,
        !.updatedAt = ToISOString(t)]]

\* the setRectangles updater of updateRectanglePosition
UpdateRectanglePosition(current, id, position, t) ==
  [i \in DOMAIN current |->
     IF current[i].id # id THEN current[i]
     ELSE [current[i] EXCEPT
             !.x = ClampRectanglePosition(current[i], position).x,
             !.y = ClampRectanglePosition(current[i], position).y,
             !.updatedAt = ToISOString(t)]]

\* a merger that lets the record that arrives last win
InsertMergeLastArrival(current, record) ==
  LET incoming == MapRecordToRectangle(record)
      k == FindIndex(current, record.id)
  IN IF k = 0 THEN Append(current, incoming)
     ELSE [i \in DOMAIN current |->
             IF current[i].id = record.id THEN incoming ELSE current[i]]

\* the setRectangles updater of handleInsertEvent
InsertMerge(current, record) ==
  LET incoming == MapRecordToRectangle(record)
      incomingTs == ParseTimestamp(incoming.updatedAt)
      k == FindIndex(current, record.id)
  IN IF k = 0 THEN Append(current, incoming)
     ELSE IF ParseTimestamp(current[k].updatedAt) >= incomingTs THEN current
     ELSE [i \in DOMAIN current |->
             IF current[i].id = record.id THEN incoming ELSE current[i]]

\* a merger that lets the record that arrives last win
UpdateMergeLastArrival(current, record) ==
  LET incoming == MapRecordToRectangle(record)
      index == FindIndex(current, record.id)
  IN IF index = 0 THEN Append(current, incoming)
     ELSE [current EXCEPT ![index] = incoming]

\* the setRectangles updater of handleUpdateEvent
UpdateMerge(current, record) ==
  LET incoming == MapRecordToRectangle(record)
      incomingTs == ParseTimestamp(incoming.updatedAt)
      index == FindIndex(current, record.id)
  IN IF index = 0 THEN Append(current, incoming)
     ELSE IF ParseTimestamp(current[index].updatedAt) >= incomingTs THEN current
     ELSE [current EXCEPT ![index] = incoming]

\* sequences listing the rows of S in ascending created_at
\* (.order('created_at', { ascending: true }); ties in any order)
OrderedByCreatedAt(S) ==
  {s \in [1..Cardinality(S) -> S] :
     /\ \A r \in S : \E i \in DOMAIN s : s[i] = r
     /\ \A i, j \in DOMAIN s : i < j => s[i].created_at <= s[j].created_at}

\* --------------------------------------------------------------------- state
VARIABLES
  now,            \* wall clock, in ticks
  rows,           \* canvas_objects table
  nextDbId,       \* gen_random_uuid(): number of the next row id
  nextTempId,     \* number of the next temporary id
  rectangles,     \* per client: the rectangles state (a list)
  selectedId,     \* per client: selectedId state
  colorIndex,     \* per client: colorIndex state
  isLoadingRectangles, \* per client
  syncError,      \* per client: "none" or the message shown
  pendingUpdates, \* per client: ids in pendingUpdatesRef
  status,         \* per client: state of the realtime channel
  feed,           \* per client: change events sent and not yet handled
  loadReqs, loadResps,
  createReqs, createResps,
  updateReqs, updateResps,
  sentCreates,    \* every durable-create request issued so far
  sentUpdates,    \* every durable-update request issued so far, each with
                  \* the clients that had loaded the workspace and were
                  \* subscribed at that time
  inputs,         \* number of user inputs, failures and outages so far
  mStore0,        \* the rectangles list the event mergers start from
  mStore,         \* that list after the records applied so far
  mRecs,          \* the change records to apply to mStore
  mApplied,       \* the indices of mRecs applied so far, in order
  user,           \* per client: the user useAuth() returns, or NoUser
  clock,          \* Date.now() / performance.now(), in milliseconds
  nextSweep,      \* per client: when the stale-cursor interval fires next
  cursorChannel,  \* per client: cursorChannelRef ("none" or "open")
  channelReady,   \* per client: channelReadyRef
  collabStatus,   \* per client: state of the collab channel
  cursorVisible,  \* per client: cursorVisibleRef
  lastCursorSent, \* per client: lastCursorSentRef
  cursorLog,      \* per client: the cursor messages sent so far, in order
  cursorMsgs,     \* cursor broadcasts on their way: [to, payload]
  remoteCursors,  \* per client: the remoteCursors state
  presenceState,  \* the sessions tracked on the collab channel
  presenceUsers,  \* per client: the presenceUsers state (a list)
  isPanning,      \* per client: isPanning state
  hasMoved,       \* per client: hasMovedRef.current
  panReach,       \* per client: the largest |dx|, |dy| of the pointer since the press
  canvases,       \* canvases table
  nextCanvasId,   \* gen_random_uuid(): number of the next canvases id
  ensureCalls,    \* per client: where its ensureCanvasByName call stands
  canvasName,     \* per client: canvasName state of App
  canvasId,       \* per client: canvasId state of App
  resolvingCanvas, \* per client: resolvingCanvas state of App
  canvasError,    \* per client: canvasError state of App
  authSession,    \* session state of AuthProvider
  authUser,       \* user state of AuthProvider
  authLoading,    \* loading state of AuthProvider
  isMounted,      \* isMounted of the AuthProvider effect
  getSessionCall, \* where the supabase.auth.getSession() call stands
  storedSession,  \* the session the auth client holds
  lastNotified    \* the session of the latest onAuthStateChange callback

vars == <<now, rows, nextDbId, nextTempId, rectangles, selectedId, colorIndex,
          isLoadingRectangles, syncError, pendingUpdates, status, feed,
          loadReqs, loadResps, createReqs, createResps, updateReqs,
          updateResps, sentCreates, sentUpdates, inputs, mStore0, mStore,
          mRecs, mApplied, user, clock, nextSweep, cursorChannel,
          channelReady, collabStatus, cursorVisible, lastCursorSent,
          cursorLog, cursorMsgs, remoteCursors, presenceState,
          presenceUsers,
          isPanning, hasMoved, panReach,
          canvases, nextCanvasId, ensureCalls, canvasName, canvasId,
          resolvingCanvas, canvasError,
          authSession, authUser, authLoading, isMounted, getSessionCall,
          storedSession, lastNotified>>

collabVars == <<clock, nextSweep, cursorChannel, channelReady, collabStatus,
                cursorVisible, lastCursorSent, cursorLog, cursorMsgs,
                remoteCursors, presenceState, presenceUsers>>

mergeVars == <<mStore0, mStore, mRecs, mApplied>>

shellVars == <<canvases, nextCanvasId, ensureCalls, canvasName, canvasId,
               resolvingCanvas, canvasError>>

authVars == <<authSession, authUser, authLoading, isMounted, getSessionCall,
              storedSession, lastNotified>>

appVars == <<isPanning, hasMoved, panReach, shellVars, authVars>>

canvasVars == <<now, rows, nextDbId, nextTempId, rectangles, selectedId,
                colorIndex, isLoadingRectangles, syncError, pendingUpdates,
                status, feed, loadReqs, loadResps, createReqs, createResps,
                updateReqs, updateResps, sentCreates, sentUpdates, inputs>>

clientVars == <<rectangles, selectedId, colorIndex, isLoadingRectangles,
                syncError, pendingUpdates>>

netVars == <<loadReqs, loadResps, createReqs, createResps, updateReqs,
             updateResps>>

sentVars == <<sentCreates, sentUpdates>>

\* a row written before the clients start
InitialRow ==
  [id |-> DbId(1), x |-> 200, y |-> 300, width |-> DEFAULT_RECT_SIZE,
   height |-> DEFAULT_RECT_SIZE, color |-> 0, canvas_id |-> ActiveCanvas,
   created_at |-> 1, updated_at |-> 1]

\* the state after the clients in M mounted Canvas (the load effect issued
\* loadRectangles(canvasId), the channel effect called subscribe), the
\* clients in L having finished their load and subscription before
\* what a client shows after it has loaded the rows R
LoadedList(R) ==
  LET records == CHOOSE s \in OrderedByCreatedAt({r \in R : r.canvas_id = ActiveCanvas}) : TRUE
  IN [i \in DOMAIN records |-> MapRecordToRectangle(records[i])]

\* no press on the stage so far
PanIdle ==
  /\ isPanning = [c \in Clients |-> FALSE]
  /\ hasMoved = [c \in Clients |-> FALSE]
  /\ panReach = [c \in Clients |-> 0]

\* DEFAULT_CANVAS_NAME and a name given in the URL
DefaultCanvasName == "default-canvas"
CanvasNames == {DefaultCanvasName, "team"}

\* canvasId = null, canvasError = null
NoCanvas == 0
NoCanvasError == "none"

\* App before its effects have run: the useState initial values, an empty
\* canvases table
ShellIdle ==
  /\ canvases = {}
  /\ nextCanvasId = 1
  /\ ensureCalls = [c \in Clients |-> [pc |-> "idle"]]
  /\ canvasName = [c \in Clients |-> DefaultCanvasName]
  /\ canvasId = [c \in Clients |-> NoCanvas]
  /\ resolvingCanvas = [c \in Clients |-> FALSE]
  /\ canvasError = [c \in Clients |-> NoCanvasError]

\* session = null
NoSession == "none"

\* AuthProvider when its effect has run: the useState initial values,
\* getSession() called and not yet answered, the listener registered
AuthIdle ==
  /\ authSession = NoSession
  /\ authUser = NoUser
  /\ authLoading = TRUE
  /\ isMounted = TRUE
  /\ getSessionCall = [pc |-> "called"]
  /\ storedSession = NoSession
  /\ lastNotified = [applied |-> FALSE, session |-> NoSession]

\* the table holds R, the clients of L have loaded, the requests Q of
\* loadRectangles are in flight
InitWithLoads(M, L, R, Q) ==
  /\ PanIdle
  /\ ShellIdle
  /\ AuthIdle
  /\ now = TicksPerMs
  /\ rows = R
  /\ nextDbId = 2
  /\ nextTempId = 1
  /\ rectangles = [c \in Clients |->
                     IF c \in L THEN LoadedList(R) ELSE <<>>]
  /\ selectedId = [c \in Clients |-> NoId]
  /\ colorIndex = [c \in Clients |-> 0]
  /\ isLoadingRectangles = [c \in Clients |-> c \notin L]
  /\ syncError = [c \in Clients |-> "none"]
  /\ pendingUpdates = [c \in Clients |-> {}]
  /\ status = [c \in Clients |->
                 IF c \in L THEN "subscribed"
                 ELSE IF c \in M THEN "connecting" ELSE "unmounted"]
  /\ feed = [c \in Clients |-> {}]
  /\ loadReqs = Q
  /\ loadResps = {}
  /\ createReqs = {}
  /\ createResps = {}
  /\ updateReqs = {}
  /\ updateResps = {}
  /\ sentCreates = {}
  /\ sentUpdates = {}
  /\ inputs = 0

InitWithRows(M, L, R) == InitWithLoads(M, L, R, {[c |-> c] : c \in M})

InitMounted(M, L) == InitWithRows(M, L, {InitialRow})

MergeIdle ==
  /\ mStore0 = <<>>
  /\ mStore = <<>>
  /\ mRecs = <<>>
  /\ mApplied = <<>>

SignedIn == user = [c \in Clients |-> UserOf(c)]

\* the collab channel before its effect has run
CollabIdle ==
  /\ clock = 0
  /\ nextSweep = [c \in Clients |-> 0]
  /\ cursorChannel = [c \in Clients |-> 0]
  /\ channelReady = [c \in Clients |-> FALSE]
  /\ collabStatus = [c \in Clients |-> "none"]
  /\ cursorVisible = [c \in Clients |-> FALSE]
  /\ lastCursorSent = [c \in Clients |-> 0]
  /\ cursorLog = [c \in Clients |-> <<>>]
  /\ cursorMsgs = [c \in Clients |-> <<>>]
  /\ remoteCursors = [c \in Clients |-> {}]
  /\ presenceState = {}
  /\ presenceUsers = [c \in Clients |-> <<>>]

\* one client on the canvas
Init == InitMounted({"c1"}, {}) /\ MergeIdle /\ SignedIn /\ CollabIdle

\* a second client joins the canvas of a client that is loaded and subscribed
InitPair == InitMounted({"c2"}, {"c1"}) /\ MergeIdle /\ SignedIn /\ CollabIdle

\* the canvas rendered while useAuth() returns no user
InitAnon ==
  /\ InitMounted({"c1"}, {}) /\ MergeIdle /\ CollabIdle
  /\ user = [c \in Clients |-> NoUser]

\* ------------------------------------------------------------------- clock
Tick ==
  /\ now < TicksPerMs + MaxTicks
  /\ now' = now + 1
  /\ UNCHANGED <<rows, nextDbId, nextTempId, clientVars, status, feed,
                 netVars, inputs,
                 sentVars, mergeVars, user, appVars, collabVars>>

\* ------------------------------------------------- Canvas: local intents
\* createRectangleAt(position)
\* the updater of setColorIndex, with the index never wrapped
NextColorIndexNoWrap(index) == index + 1

\* the updater of setColorIndex
NextColorIndex(index) == (index + 1) % NumColors

CreateRectangleAt(c, position) ==
  LET width == Max(DEFAULT_RECT_SIZE, MIN_RECT_SIZE)
      height == Max(DEFAULT_RECT_SIZE, MIN_RECT_SIZE)
      clampedX == Min(WORKSPACE_SIZE - width, Max(0, position.x - width \div 2))
      clampedY == Min(WORKSPACE_SIZE - height, Max(0, position.y - height \div 2))
      color == colorIndex[c]
      tempId == TempId(nextTempId)
      optimisticRectangle ==
        [id |-> tempId, x |-> clampedX, y |-> clampedY, width |-> width,
         height |-> height, color |-> color, canvasId |-> ActiveCanvas,
         updatedAt |-> ToISOString(now)]
  IN /\ rectangles' = [rectangles EXCEPT ![c] = Append(@, optimisticRectangle)]
     /\ selectedId' = [selectedId EXCEPT ![c] = tempId]
     /\ colorIndex' = [colorIndex EXCEPT ![c] = NextColorIndex(@)]
     /\ nextTempId' = nextTempId + 1
     /\ createReqs' = createReqs \cup
          {[c |-> c, tempId |-> tempId, x |-> clampedX, y |-> clampedY,
            width |-> width, height |-> height, color |-> color,
            canvas_id |-> ActiveCanvas, created_by |-> user[c]]}
     /\ sentCreates' = sentCreates \cup
          {[c |-> c, tempId |-> tempId, x |-> clampedX, y |-> clampedY,
            width |-> width, height |-> height, color |-> color,
            canvas_id |-> ActiveCanvas, created_by |-> user[c]]}

\* a handlePanEnd that creates whatever is selected
HandlePanEndAlwaysCreates(c, pointer) ==
  /\ status[c] # "unmounted"
  /\ inputs < MaxInputs
  /\ CreateRectangleAt(c, pointer)
  /\ inputs' = inputs + 1
  /\ UNCHANGED <<now, rows, nextDbId, isLoadingRectangles, syncError,
                 pendingUpdates, status, feed, loadReqs, loadResps,
                 createResps, updateReqs, updateResps,
                 sentUpdates, mergeVars, user, appVars, collabVars>>

\* handlePanEnd for a release on the background without pointer movement
HandlePanEnd(c, pointer) ==
  /\ status[c] # "unmounted"
  /\ IF selectedId[c] # NoId
     THEN /\ selectedId' = [selectedId EXCEPT ![c] = NoId]
          /\ UNCHANGED <<rectangles, colorIndex, nextTempId, createReqs,
                         sentCreates, inputs>>
     ELSE /\ inputs < MaxInputs
          /\ CreateRectangleAt(c, pointer)
          /\ inputs' = inputs + 1
  /\ UNCHANGED <<now, rows, nextDbId, isLoadingRectangles, syncError,
                 pendingUpdates, status, feed, loadReqs, loadResps,
                 createResps, updateReqs, updateResps,
                 sentUpdates, mergeVars, user, appVars, collabVars>>

\* Rectangle onDragMove: updateRectanglePosition, no durable write
OnDragMove(c, id, position) ==
  /\ inputs < MaxInputs
  /\ HasId(rectangles[c], id)
  /\ rectangles' = [rectangles EXCEPT
                      ![c] = UpdateRectanglePosition(@, id, position, now)]
  /\ inputs' = inputs + 1
  /\ UNCHANGED <<now, rows, nextDbId, nextTempId, selectedId, colorIndex,
                 isLoadingRectangles, syncError, pendingUpdates, status,
                 feed, netVars,
                 sentVars, mergeVars, user, appVars, collabVars>>

\* the position updateRectanglePosition returns: the clamp of the last
\* item the updater visited
NextPosition(current, id, position) ==
  LET k == CHOOSE i \in DOMAIN current :
             /\ current[i].id = id
             /\ \A j \in DOMAIN current : current[j].id = id => j <= i
  IN ClampRectanglePosition(current[k], position)

\* Rectangle onDragEnd: updateRectanglePosition, then updateRectangleRecord
\* unless the id is a temporary one
OnDragEnd(c, id, position) ==
  /\ inputs < MaxInputs
  /\ HasId(rectangles[c], id)
  /\ rectangles' = [rectangles EXCEPT
                      ![c] = UpdateRectanglePosition(@, id, position, now)]
  /\ IF ~IsTempId(id)
     THEN /\ pendingUpdates' = [pendingUpdates EXCEPT ![c] = @ \cup {id}]
          /\ updateReqs' = updateReqs \cup
               {[c |-> c, id |-> id,
                 x |-> NextPosition(rectangles[c], id, position).x,
                 y |-> NextPosition(rectangles[c], id, position).y,
                 canvas_id |-> ActiveCanvas,
                 updated_at |-> ToISOString(now)]}
          /\ sentUpdates' = sentUpdates \cup
               {[c |-> c, id |-> id,
                 x |-> NextPosition(rectangles[c], id, position).x,
                 y |-> NextPosition(rectangles[c], id, position).y,
                 canvas_id |-> ActiveCanvas,
                 updated_at |-> ToISOString(now),
                 live |-> {cl \in Clients :
                             /\ status[cl] = "subscribed"
                             /\ ~isLoadingRectangles[cl]}]}
     ELSE UNCHANGED <<pendingUpdates, updateReqs, sentUpdates>>
  /\ inputs' = inputs + 1
  /\ UNCHANGED <<now, rows, nextDbId, nextTempId, selectedId, colorIndex,
                 isLoadingRectangles, syncError, status, feed, loadReqs,
                 loadResps, createReqs, createResps, updateResps,
                 sentCreates, mergeVars, user, appVars, collabVars>>


\* -------------------------------------------------- backend (database.ts)
\* check constraints of canvas_objects
RowAccepted(r) ==
  /\ r.x >= 0 /\ r.x <= 3000
  /\ r.y >= 0 /\ r.y <= 3000
  /\ r.width >= 20
  /\ r.height >= 20

\* clients whose channel receives the change events of canvas cv
Subscribers(cv) == {c \in Clients : status[c] = "subscribed" /\ cv = ActiveCanvas}

Publish(kind, row) ==
  feed' = [c \in Clients |->
             IF c \in Subscribers(row.canvas_id)
             THEN feed[c] \cup {[kind |-> kind, new |-> row]}
             ELSE feed[c]]

NoRow ==
  [id |-> NoId, x |-> 0, y |-> 0, width |-> 0, height |-> 0, color |-> 0,
   canvas_id |-> "none", created_at |-> NoTs, updated_at |-> NoTs]

\* loadRectangles(canvasId): select ... eq canvas_id ... order created_at
LoadRectangles(req) ==
  /\ req \in loadReqs
  /\ loadReqs' = loadReqs \ {req}
  /\ \/ /\ \E s \in OrderedByCreatedAt({r \in rows : r.canvas_id = ActiveCanvas}) :
             loadResps' = loadResps \cup {[c |-> req.c, ok |-> TRUE, records |-> s]}
        /\ UNCHANGED inputs
     \/ /\ inputs < MaxInputs
        /\ inputs' = inputs + 1
        /\ loadResps' = loadResps \cup {[c |-> req.c, ok |-> FALSE, records |-> <<>>]}
  /\ UNCHANGED <<now, rows, nextDbId, nextTempId, clientVars, status, feed,
                 createReqs, createResps, updateReqs, updateResps,
                 sentVars, mergeVars, user, appVars, collabVars>>

\* createRectangle(rectangle): insert(...).select().single()
\* id, created_at and updated_at take the column defaults
CreateRectangle(req) ==
  LET row == [id |-> DbId(nextDbId), x |-> req.x, y |-> req.y,
              width |-> req.width, height |-> req.height, color |-> req.color,
              canvas_id |-> req.canvas_id, created_at |-> now,
              updated_at |-> now]
  IN /\ req \in createReqs
     /\ createReqs' = createReqs \ {req}
     /\ \/ /\ RowAccepted(row)
           /\ rows' = rows \cup {row}
           /\ nextDbId' = nextDbId + 1
           /\ createResps' = createResps \cup
                {[c |-> req.c, tempId |-> req.tempId, ok |-> TRUE, record |-> row]}
           /\ Publish("INSERT", row)
           /\ UNCHANGED inputs
        \/ /\ inputs < MaxInputs \/ ~RowAccepted(row)
           /\ inputs' = inputs + 1
           /\ createResps' = createResps \cup
                {[c |-> req.c, tempId |-> req.tempId, ok |-> FALSE, record |-> NoRow]}
           /\ UNCHANGED <<rows, nextDbId, feed>>
     /\ UNCHANGED <<now, nextTempId, clientVars, status, loadReqs, loadResps,
                    updateReqs, updateResps,
                 sentVars, mergeVars, user, appVars, collabVars>>

\* updateRectangle(id, rectangle): update(rectangle).eq('id', id).select().single()
UpdateRectangle(req) ==
  /\ req \in updateReqs
  /\ updateReqs' = updateReqs \ {req}
  /\ \/ \E old \in rows :
          LET row == [old EXCEPT !.x = req.x, !.y = req.y,
                                 !.canvas_id = req.canvas_id,
                                 !.updated_at = req.updated_at]
          IN /\ old.id = req.id
             /\ RowAccepted(row)
             /\ rows' = (rows \ {old}) \cup {row}
             /\ updateResps' = updateResps \cup
                  {[c |-> req.c, id |-> req.id, ok |-> TRUE, record |-> row]}
             /\ Publish("UPDATE", row)
             /\ UNCHANGED inputs
     \/ /\ \/ inputs < MaxInputs
           \/ ~\E old \in rows : old.id = req.id
        /\ inputs' = inputs + 1
        /\ updateResps' = updateResps \cup
             {[c |-> req.c, id |-> req.id, ok |-> FALSE, record |-> NoRow]}
        /\ UNCHANGED <<rows, feed>>
  /\ UNCHANGED <<now, nextDbId, nextTempId, clientVars, status, loadReqs,
                 loadResps, createReqs, createResps,
                 sentVars, mergeVars, user, appVars, collabVars>>


\* ------------------------------------------ Canvas: responses and events
\* the setRectangles updater of createRectangleRecord(...).then
ConfirmCreate(current, tempId, record) ==
  [i \in DOMAIN current |->
     IF current[i].id = tempId THEN MapRecordToRectangle(record) ELSE current[i]]

\* the setRectangles updater of createRectangleRecord(...).catch
RollbackCreate(current, tempId) ==
  SelectSeq(current, LAMBDA item : item.id # tempId)

\* the setRectangles updater of updateRectangleRecord(...).then
ApplyUpdateResponse(current, record) ==
  [i \in DOMAIN current |->
     IF current[i].id = record.id THEN MapRecordToRectangle(record) ELSE current[i]]

\* the setRectangles call of the load effect
Hydrate(current, records) ==
  [i \in DOMAIN records |-> MapRecordToRectangle(records[i])]

\* loadRectangles(canvasId).then / .catch / .finally of the load effect
LoadResponse(c, resp) ==
  /\ resp \in loadResps
  /\ resp.c = c
  /\ loadResps' = loadResps \ {resp}
  /\ IF resp.ok
     THEN /\ rectangles' = [rectangles EXCEPT ![c] = Hydrate(@, resp.records)]
          /\ UNCHANGED syncError
     ELSE /\ syncError' = [syncError EXCEPT ![c] = "request failed"]
          /\ UNCHANGED rectangles
  /\ isLoadingRectangles' = [isLoadingRectangles EXCEPT ![c] = FALSE]
  /\ UNCHANGED <<now, rows, nextDbId, nextTempId, selectedId, colorIndex,
                 pendingUpdates, status, feed, loadReqs, createReqs,
                 createResps, updateReqs, updateResps, inputs,
                 sentVars, mergeVars, user, appVars, collabVars>>

\* createRectangleRecord(...).then / .catch of createRectangleAt
CreateResponse(c, resp) ==
  /\ resp \in createResps
  /\ resp.c = c
  /\ createResps' = createResps \ {resp}
  /\ IF resp.ok
     THEN /\ syncError' = [syncError EXCEPT ![c] = "none"]
          /\ rectangles' = [rectangles EXCEPT
                              ![c] = ConfirmCreate(@, resp.tempId, resp.record)]
          /\ selectedId' = [selectedId EXCEPT ![c] = resp.record.id]
     ELSE /\ rectangles' = [rectangles EXCEPT
                              ![c] = RollbackCreate(@, resp.tempId)]
          /\ selectedId' = [selectedId EXCEPT ![c] = NoId]
          /\ syncError' = [syncError EXCEPT ![c] = "request failed"]
  /\ UNCHANGED <<now, rows, nextDbId, nextTempId, colorIndex,
                 isLoadingRectangles, pendingUpdates, status, feed, loadReqs,
                 loadResps, createReqs, updateReqs, updateResps, inputs,
                 sentVars, mergeVars, user, appVars, collabVars>>

\* updateRectangleRecord(...).then / .catch of onDragEnd
UpdateResponse(c, resp) ==
  /\ resp \in updateResps
  /\ resp.c = c
  /\ updateResps' = updateResps \ {resp}
  /\ pendingUpdates' = [pendingUpdates EXCEPT ![c] = @ \ {resp.id}]
  /\ IF resp.ok
     THEN /\ rectangles' = [rectangles EXCEPT
                              ![c] = ApplyUpdateResponse(@, resp.record)]
          /\ syncError' = [syncError EXCEPT ![c] = "none"]
     ELSE /\ syncError' = [syncError EXCEPT ![c] = "request failed"]
          /\ UNCHANGED rectangles
  /\ UNCHANGED <<now, rows, nextDbId, nextTempId, selectedId, colorIndex,
                 isLoadingRectangles, status, feed, loadReqs, loadResps,
                 createReqs, createResps, updateReqs, inputs,
                 sentVars, mergeVars, user, appVars, collabVars>>

\* the early returns of the handlers without the check of canvas_id
DiscardedWithoutRecord(record) == record = NoRow

\* the early returns of handleInsertEvent and handleUpdateEvent:
\* !record, record.canvas_id !== canvasId
Discarded(record) == record = NoRow \/ record.canvas_id # ActiveCanvas

\* handleInsertEvent(payload)
HandleInsertEvent(c, payload) ==
  /\ payload \in feed[c]
  /\ payload.kind = "INSERT"
  /\ feed' = [feed EXCEPT ![c] = @ \ {payload}]
  /\ IF Discarded(payload.new)
     THEN UNCHANGED <<rectangles, syncError>>
     ELSE /\ rectangles' = [rectangles EXCEPT ![c] = InsertMerge(@, payload.new)]
          /\ syncError' = [syncError EXCEPT ![c] = "none"]
  /\ UNCHANGED <<now, rows, nextDbId, nextTempId, selectedId, colorIndex,
                 isLoadingRectangles, pendingUpdates, status, netVars,
                 inputs,
                 sentVars, mergeVars, user, appVars, collabVars>>

\* handleUpdateEvent(payload)
HandleUpdateEvent(c, payload) ==
  /\ payload \in feed[c]
  /\ payload.kind = "UPDATE"
  /\ feed' = [feed EXCEPT ![c] = @ \ {payload}]
  /\ IF Discarded(payload.new)
     THEN UNCHANGED <<rectangles, syncError, pendingUpdates>>
     ELSE /\ rectangles' = [rectangles EXCEPT ![c] = UpdateMerge(@, payload.new)]
          /\ pendingUpdates' = [pendingUpdates EXCEPT ![c] = @ \ {payload.new.id}]
          /\ syncError' = [syncError EXCEPT ![c] = "none"]
  /\ UNCHANGED <<now, rows, nextDbId, nextTempId, selectedId, colorIndex,
                 isLoadingRectangles, status, netVars, inputs,
                 sentVars, mergeVars, user, appVars, collabVars>>

\* ------------------------------------------------ Canvas: realtime channel
RealtimeErrors ==
  {"Realtime connection error", "Realtime connection closed"}

\* channel.subscribe callback, status SUBSCRIBED
ChannelSubscribed(c) ==
  /\ status[c] \in {"connecting", "error", "closed"}
  /\ status' = [status EXCEPT ![c] = "subscribed"]
  /\ syncError' = [syncError EXCEPT
                     ![c] = IF @ \in RealtimeErrors THEN "none" ELSE @]
  /\ UNCHANGED <<now, rows, nextDbId, nextTempId, rectangles, selectedId,
                 colorIndex, isLoadingRectangles, pendingUpdates, feed,
                 netVars, inputs,
                 sentVars, mergeVars, user, appVars, collabVars>>

\* channel.subscribe callback, status CHANNEL_ERROR or CLOSED; the events
\* still on their way to the client are lost with the connection
\* a status callback that reports nothing
ConnectionErrorUnreported(s) == "none"

\* the message of setSyncError in the status callback
ConnectionError(s) ==
  IF s = "error" THEN "Realtime connection error" ELSE "Realtime connection closed"

ChannelDown(c, s) ==
  /\ inputs < MaxInputs
  /\ status[c] \in {"connecting", "subscribed"}
  /\ inputs' = inputs + 1
  /\ status' = [status EXCEPT ![c] = s]
  /\ syncError' = [syncError EXCEPT ![c] = ConnectionError(s)]
  /\ feed' = [feed EXCEPT ![c] = {}]
  /\ UNCHANGED <<now, rows, nextDbId, nextTempId, rectangles, selectedId,
                 colorIndex, isLoadingRectangles, pendingUpdates, netVars,
                 sentVars, mergeVars, user, appVars, collabVars>>

\* the 5000 ms timeout of the syncError effect
ClearSyncError(c) ==
  /\ syncError[c] # "none"
  /\ syncError' = [syncError EXCEPT ![c] = "none"]
  /\ UNCHANGED <<now, rows, nextDbId, nextTempId, rectangles, selectedId,
                 colorIndex, isLoadingRectangles, pendingUpdates, status,
                 feed, netVars, inputs,
                 sentVars, mergeVars, user, appVars, collabVars>>

\* ------------------------------------------------------------ specification
Next ==
  \/ Tick
  \/ \E c \in Clients, p \in ClickPoints : HandlePanEnd(c, p)
  \/ \E c \in Clients : \E i \in DOMAIN rectangles[c], p \in DragPoints :
       OnDragMove(c, rectangles[c][i].id, p)
  \/ \E c \in Clients : \E i \in DOMAIN rectangles[c], p \in DragPoints :
       OnDragEnd(c, rectangles[c][i].id, p)
  \/ \E req \in loadReqs : LoadRectangles(req)
  \/ \E req \in createReqs : CreateRectangle(req)
  \/ \E req \in updateReqs : UpdateRectangle(req)
  \/ \E c \in Clients, resp \in loadResps : LoadResponse(c, resp)
  \/ \E c \in Clients, resp \in createResps : CreateResponse(c, resp)
  \/ \E c \in Clients, resp \in updateResps : UpdateResponse(c, resp)
  \/ \E c \in Clients : \E payload \in feed[c] : HandleInsertEvent(c, payload)
  \/ \E c \in Clients : \E payload \in feed[c] : HandleUpdateEvent(c, payload)
  \/ \E c \in Clients : ChannelSubscribed(c)
  \/ \E c \in Clients, s \in {"error", "closed"} : ChannelDown(c, s)
  \/ \E c \in Clients : ClearSyncError(c)

Spec == Init /\ [][Next]_vars

SpecPair == InitPair /\ [][Next]_vars

SpecAnon == InitAnon /\ [][Next]_vars


\* ------------------------------------- the event mergers applied on their own
MaxMerges == 3

\* change records of one object: two positions, every instant of the clock
MergeRecords ==
  {[InitialRow EXCEPT !.x = x, !.updated_at = t] :
     x \in {200, 700}, t \in 1..(TicksPerMs + MaxTicks)}

\* another object, never the subject of a change record
OtherRectangle ==
  MapRecordToRectangle([InitialRow EXCEPT !.id = DbId(9), !.y = 900])

\* lists the mergers start from: the object absent or present, alone or not
MergeStores ==
  {<<>>, <<OtherRectangle>>}
    \cup {<<MapRecordToRectangle(r)>> : r \in MergeRecords}
    \cup {<<OtherRectangle, MapRecordToRectangle(r)>> : r \in MergeRecords}

InitMerge ==
  /\ InitMounted({}, {})
  /\ mStore0 \in MergeStores
  /\ mStore = mStore0
  /\ mRecs \in {<<r1, r2>> : r1 \in MergeRecords, r2 \in MergeRecords}
  /\ mApplied = <<>>
  /\ SignedIn /\ CollabIdle

\* an INSERT event carrying mRecs[i] reaches handleInsertEvent
ApplyInsertEvent(i) ==
  /\ Len(mApplied) < MaxMerges
  /\ mStore' = InsertMerge(mStore, mRecs[i])
  /\ mApplied' = Append(mApplied, i)
  /\ UNCHANGED <<canvasVars, mStore0, mRecs, user, appVars, collabVars>>

\* an UPDATE event carrying mRecs[i] reaches handleUpdateEvent
ApplyUpdateEvent(i) ==
  /\ Len(mApplied) < MaxMerges
  /\ mStore' = UpdateMerge(mStore, mRecs[i])
  /\ mApplied' = Append(mApplied, i)
  /\ UNCHANGED <<canvasVars, mStore0, mRecs, user, appVars, collabVars>>

NextMerge ==
  \/ \E i \in DOMAIN mRecs : ApplyInsertEvent(i)
  \/ \E i \in DOMAIN mRecs : ApplyUpdateEvent(i)

SpecMerge == InitMerge /\ [][NextMerge]_vars


\* ---------------------------- Canvas with presence (the later component)
\* This version of the component keeps rectangles, selectedId and colorIndex
\* only; it has no syncError, no loading flag and no pending-update set.

\* [...].sort((a, b) => parseTimestamp(a.updatedAt) - parseTimestamp(b.updatedAt))
\* the sort is stable: items of equal timestamp keep their order
InsertByUpdatedAt(sorted, item) ==
  LET k == Cardinality({i \in DOMAIN sorted :
                          ParseTimestamp(sorted[i].updatedAt)
                            <= ParseTimestamp(item.updatedAt)})
  IN SubSeq(sorted, 1, k) \o <<item>> \o SubSeq(sorted, k + 1, Len(sorted))

RECURSIVE SortByUpdatedAt(_)
SortByUpdatedAt(list) ==
  IF list = <<>> THEN <<>>
  ELSE InsertByUpdatedAt(SortByUpdatedAt(SubSeq(list, 1, Len(list) - 1)),
                         list[Len(list)])

\* the setRectangles updater of the postgres_changes handler, INSERT or UPDATE
UpsertChange(current, record) ==
  LET incoming == MapRecordToRectangle(record)
      existingIndex == FindIndex(current, incoming.id)
  IN IF existingIndex = 0
     THEN SortByUpdatedAt(Append(current, incoming))
     ELSE IF ParseTimestamp(incoming.updatedAt)
               < ParseTimestamp(current[existingIndex].updatedAt)
          THEN current
          ELSE SortByUpdatedAt([current EXCEPT ![existingIndex] = incoming])

\* the setRectangles updater of the postgres_changes handler, DELETE
DeleteChange(current, record) ==
  SelectSeq(current, LAMBDA item : item.id # record.id)

InitPresence == InitMounted({"c1"}, {}) /\ MergeIdle /\ SignedIn /\ CollabIdle

\* handlePanEnd for a release on the background without pointer movement
PresenceHandlePanEnd(c, pointer) ==
  /\ status[c] # "unmounted"
  /\ IF selectedId[c] # NoId
     THEN /\ selectedId' = [selectedId EXCEPT ![c] = NoId]
          /\ UNCHANGED <<rectangles, colorIndex, nextTempId, createReqs,
                         sentCreates, inputs>>
     ELSE /\ inputs < MaxInputs
          /\ CreateRectangleAt(c, pointer)
          /\ inputs' = inputs + 1
  /\ UNCHANGED <<now, rows, nextDbId, isLoadingRectangles, syncError,
                 pendingUpdates, status, feed, loadReqs, loadResps,
                 createResps, updateReqs, updateResps,
                 sentUpdates, mergeVars, user, appVars, collabVars>>

\* Rectangle onDragEnd: updateRectanglePosition, then
\* persistRectanglePosition unless the id is a temporary one
PresenceOnDragEnd(c, id, position) ==
  /\ inputs < MaxInputs
  /\ HasId(rectangles[c], id)
  /\ rectangles' = [rectangles EXCEPT
                      ![c] = UpdateRectanglePosition(@, id, position, now)]
  /\ IF ~IsTempId(id)
     THEN updateReqs' = updateReqs \cup
            {[c |-> c, id |-> id,
              x |-> NextPosition(rectangles[c], id, position).x,
              y |-> NextPosition(rectangles[c], id, position).y,
              canvas_id |-> ActiveCanvas,
              updated_at |-> ToISOString(now)]}
     ELSE UNCHANGED updateReqs
  /\ inputs' = inputs + 1
  /\ UNCHANGED <<now, rows, nextDbId, nextTempId, selectedId, colorIndex,
                 isLoadingRectangles, syncError, pendingUpdates, status,
                 feed, loadReqs, loadResps, createReqs, createResps,
                 updateResps, sentVars, mergeVars, user, appVars, collabVars>>

\* fetchRectangles: the records replace the list; a rejection of
\* loadRectangles is not caught and changes nothing
PresenceFetchResponse(c, resp) ==
  /\ resp \in loadResps
  /\ resp.c = c
  /\ loadResps' = loadResps \ {resp}
  /\ IF resp.ok
     THEN rectangles' = [rectangles EXCEPT ![c] = Hydrate(@, resp.records)]
     ELSE UNCHANGED rectangles
  /\ UNCHANGED <<now, rows, nextDbId, nextTempId, selectedId, colorIndex,
                 isLoadingRectangles, syncError, pendingUpdates, status,
                 feed, loadReqs, createReqs, createResps, updateReqs,
                 updateResps, inputs, sentVars, mergeVars, user, appVars, collabVars>>

\* createRectangle(...).then of createRectangleAt; the promise has no
\* catch, so a rejection changes nothing
PresenceCreateResponse(c, resp) ==
  /\ resp \in createResps
  /\ resp.c = c
  /\ createResps' = createResps \ {resp}
  /\ IF resp.ok
     THEN /\ rectangles' = [rectangles EXCEPT
                              ![c] = ConfirmCreate(@, resp.tempId, resp.record)]
          /\ selectedId' = [selectedId EXCEPT ![c] = resp.record.id]
     ELSE UNCHANGED <<rectangles, selectedId>>
  /\ UNCHANGED <<now, rows, nextDbId, nextTempId, colorIndex,
                 isLoadingRectangles, syncError, pendingUpdates, status,
                 feed, loadReqs, loadResps, createReqs, updateReqs,
                 updateResps, inputs, sentVars, mergeVars, user, appVars, collabVars>>

\* persistRectanglePosition discards the promise of updateRectangle
PresenceUpdateSettled(c, resp) ==
  /\ resp \in updateResps
  /\ resp.c = c
  /\ updateResps' = updateResps \ {resp}
  /\ UNCHANGED <<now, rows, nextDbId, nextTempId, clientVars, status, feed,
                 loadReqs, loadResps, createReqs, createResps, updateReqs,
                 inputs, sentVars, mergeVars, user, appVars, collabVars>>

\* the postgres_changes handler (event '*')
PresenceChange(c, payload) ==
  /\ payload \in feed[c]
  /\ feed' = [feed EXCEPT ![c] = @ \ {payload}]
  /\ rectangles' = [rectangles EXCEPT
                      ![c] = IF payload.kind = "DELETE"
                             THEN IF payload.new = NoRow \/ payload.new.id = NoId
                                  THEN @
                                  ELSE DeleteChange(@, payload.new)
                             ELSE IF payload.new = NoRow
                                  THEN @
                                  ELSE UpsertChange(@, payload.new)]
  /\ UNCHANGED <<now, rows, nextDbId, nextTempId, selectedId, colorIndex,
                 isLoadingRectangles, syncError, pendingUpdates, status,
                 netVars, inputs, sentVars, mergeVars, user, appVars, collabVars>>

\* channel.subscribe callback of the objects channel: the status is logged
PresenceSubscribed(c) ==
  /\ status[c] \in {"connecting", "error", "closed"}
  /\ status' = [status EXCEPT ![c] = "subscribed"]
  /\ UNCHANGED <<now, rows, nextDbId, nextTempId, clientVars, feed, netVars,
                 inputs, sentVars, mergeVars, user, appVars, collabVars>>

\* the same callback with CHANNEL_ERROR or CLOSED: the status is logged; the
\* events still on their way to the client are lost with the connection
PresenceChannelDown(c, s) ==
  /\ inputs < MaxInputs
  /\ status[c] \in {"connecting", "subscribed"}
  /\ inputs' = inputs + 1
  /\ status' = [status EXCEPT ![c] = s]
  /\ feed' = [feed EXCEPT ![c] = {}]
  /\ UNCHANGED <<now, rows, nextDbId, nextTempId, clientVars, netVars,
                 sentVars, mergeVars, user, appVars, collabVars>>

NextPresence ==
  \/ Tick
  \/ \E c \in Clients, p \in ClickPoints : PresenceHandlePanEnd(c, p)
  \/ \E c \in Clients : \E i \in DOMAIN rectangles[c], p \in DragPoints :
       PresenceOnDragEnd(c, rectangles[c][i].id, p)
  \/ \E req \in loadReqs : LoadRectangles(req)
  \/ \E req \in createReqs : CreateRectangle(req)
  \/ \E req \in updateReqs : UpdateRectangle(req)
  \/ \E c \in Clients, resp \in loadResps : PresenceFetchResponse(c, resp)
  \/ \E c \in Clients, resp \in createResps : PresenceCreateResponse(c, resp)
  \/ \E c \in Clients, resp \in updateResps : PresenceUpdateSettled(c, resp)
  \/ \E c \in Clients : \E payload \in feed[c] : PresenceChange(c, payload)
  \/ \E c \in Clients : PresenceSubscribed(c)
  \/ \E c \in Clients, s \in {"error", "closed"} : PresenceChannelDown(c, s)

SpecPresence == InitPresence /\ [][NextPresence]_vars

\* ------------------------------------ change events as the channel hands
\* them to the handlers, well-formed or not

\* a record of another workspace
ForeignRecord ==
  [InitialRow EXCEPT !.id = DbId(7), !.canvas_id = "cv2", !.x = 700,
                     !.updated_at = 2 * TicksPerMs]

\* a record without id
NoIdRecord == [InitialRow EXCEPT !.id = NoId, !.x = 700]

\* a record of a new object without created_at and updated_at
NoTimestampRecord ==
  [InitialRow EXCEPT !.id = DbId(8), !.created_at = NoTs, !.updated_at = NoTs]

\* a later change of the object of InitialRow
LaterRecord == [InitialRow EXCEPT !.x = 700, !.updated_at = 2 * TicksPerMs]

\* payload.new of the events; NoRow stands for a payload without record
EventRecords ==
  {NoRow, ForeignRecord, NoIdRecord, NoTimestampRecord, LaterRecord}

Malformed(record) ==
  \/ record = NoRow
  \/ record.id = NoId
  \/ record.created_at = NoTs /\ record.updated_at = NoTs

\* the channel calls the handler registered for the event
DeliverEvent(c, kind, record) ==
  /\ status[c] = "subscribed"
  /\ inputs < MaxInputs
  /\ inputs' = inputs + 1
  /\ feed' = [feed EXCEPT ![c] = @ \cup {[kind |-> kind, new |-> record]}]
  /\ UNCHANGED <<now, rows, nextDbId, nextTempId, clientVars, status, netVars,
                 sentVars, mergeVars, user, appVars, collabVars>>

\* the realtime component and its event handlers
NextEvents ==
  \/ \E req \in loadReqs : LoadRectangles(req)
  \/ \E c \in Clients, resp \in loadResps : LoadResponse(c, resp)
  \/ \E c \in Clients : ChannelSubscribed(c)
  \/ \E c \in Clients, kind \in {"INSERT", "UPDATE"}, record \in EventRecords :
       DeliverEvent(c, kind, record)
  \/ \E c \in Clients : \E payload \in feed[c] : HandleInsertEvent(c, payload)
  \/ \E c \in Clients : \E payload \in feed[c] : HandleUpdateEvent(c, payload)

SpecEvents == Init /\ [][NextEvents]_vars

\* ------------------------------------------- App: the canvas of a name
\* the most rows the canvases table gets
MaxCanvasRows == 3

\* error.message of a failed query
CanvasErrors == {"query failed"}

\* the variables of Canvas, of the mergers and of the collab channel
belowApp == <<now, rows, nextDbId, nextTempId, clientVars, status, feed,
              netVars, sentVars, mergeVars, user, collabVars,
              isPanning, hasMoved, panReach>>

\* the calls of ensureCanvasByName that have not returned
CallsInFlight == {c \in Clients : ensureCalls[c].pc # "idle"}

\* the effect of App with [canvasName, user]: the page is opened with the
\* name in the URL by a signed-in user; resolve() sets resolvingCanvas,
\* clears canvasError and calls ensureCanvasByName(canvasName), which sends
\* its select
Resolve(c, name) ==
  /\ user[c] # NoUser
  /\ ensureCalls[c].pc = "idle"
  /\ Cardinality(canvases) + Cardinality(CallsInFlight) < MaxCanvasRows
  /\ canvasName' = [canvasName EXCEPT ![c] = name]
  /\ resolvingCanvas' = [resolvingCanvas EXCEPT ![c] = TRUE]
  /\ canvasError' = [canvasError EXCEPT ![c] = NoCanvasError]
  /\ ensureCalls' = [ensureCalls EXCEPT ![c] = [pc |-> "select"]]
  /\ UNCHANGED <<canvases, nextCanvasId, canvasId, inputs, belowApp, authVars>>

\* the catch and finally of resolve(): the message is shown
ResolveFailed(c, message) ==
  /\ inputs < MaxInputs
  /\ inputs' = inputs + 1
  /\ canvasError' = [canvasError EXCEPT ![c] = message]
  /\ resolvingCanvas' = [resolvingCanvas EXCEPT ![c] = FALSE]
  /\ ensureCalls' = [ensureCalls EXCEPT ![c] = [pc |-> "idle"]]
  /\ UNCHANGED <<canvases, nextCanvasId, canvasId>>

\* the rest of resolve() after ensureCanvasByName returned canvas
ResolveReturned(c, canvas) ==
  /\ canvasId' = [canvasId EXCEPT ![c] = canvas.id]
  /\ resolvingCanvas' = [resolvingCanvas EXCEPT ![c] = FALSE]
  /\ ensureCalls' = [ensureCalls EXCEPT ![c] = [pc |-> "idle"]]
  /\ UNCHANGED <<canvasError, inputs>>

\* select('*').eq('name', name).limit(1) is answered: an error is thrown, a
\* row of that name is returned (any of them: the query has no order), or
\* the insert is sent
EnsureSelect(c) ==
  /\ ensureCalls[c].pc = "select"
  /\ LET data == {r \in canvases : r.name = canvasName[c]}
     IN \/ \E message \in CanvasErrors : ResolveFailed(c, message)
        \/ /\ data # {}
           /\ \E canvas \in data : ResolveReturned(c, canvas)
           /\ UNCHANGED <<canvases, nextCanvasId>>
        \/ /\ data = {}
           /\ ensureCalls' = [ensureCalls EXCEPT ![c] = [pc |-> "insert"]]
           /\ UNCHANGED <<canvases, nextCanvasId, canvasId, resolvingCanvas,
                          canvasError, inputs>>
  /\ UNCHANGED <<canvasName, belowApp, authVars>>

\* insert({ name }).select().single() is answered: an error is thrown or the
\* new row is returned; the table has no constraint on name
EnsureInsert(c) ==
  /\ ensureCalls[c].pc = "insert"
  /\ \/ \E message \in CanvasErrors : ResolveFailed(c, message)
     \/ LET inserted == [id |-> nextCanvasId, name |-> canvasName[c]]
        IN /\ canvases' = canvases \cup {inserted}
           /\ nextCanvasId' = nextCanvasId + 1
           /\ ResolveReturned(c, inserted)
  /\ UNCHANGED <<canvasName, belowApp, authVars>>

NextEnsure ==
  \/ \E c \in Clients, name \in CanvasNames : Resolve(c, name)
  \/ \E c \in Clients : EnsureSelect(c)
  \/ \E c \in Clients : EnsureInsert(c)

SpecEnsure == Init /\ [][NextEnsure]_vars

\* ------------------------------------------------ AuthContext: AuthProvider
\* the sessions the auth client can hold
AuthSessions == {"sess1", "sess2"}

\* session?.user ?? null
UserOfSession(s) ==
  IF s = NoSession THEN NoUser ELSE IF s = "sess1" THEN "u1" ELSE "u2"

\* the variables of App and below
belowAuth == <<belowApp, shellVars>>

\* the auth client answers getSession(): with the session it holds at that
\* time, or with an error
GetSessionRead ==
  /\ getSessionCall.pc = "called"
  /\ \/ /\ getSessionCall' = [pc |-> "answered", error |-> FALSE,
                              session |-> storedSession]
        /\ UNCHANGED inputs
     \/ /\ inputs < MaxInputs
        /\ inputs' = inputs + 1
        /\ getSessionCall' = [pc |-> "answered", error |-> TRUE,
                              session |-> NoSession]
  /\ UNCHANGED <<authSession, authUser, authLoading, isMounted, storedSession,
                 lastNotified, belowAuth>>

\* initializeSession after its await
InitializeSession ==
  /\ getSessionCall.pc = "answered"
  /\ getSessionCall' = [pc |-> "done"]
  /\ IF ~isMounted
     THEN UNCHANGED <<authSession, authUser, authLoading>>
     ELSE IF getSessionCall.error
          THEN /\ authSession' = NoSession
               /\ authUser' = NoUser
               /\ authLoading' = FALSE
          ELSE /\ authSession' = getSessionCall.session
               /\ authUser' = UserOfSession(getSessionCall.session)
               /\ authLoading' = FALSE
  /\ UNCHANGED <<isMounted, storedSession, lastNotified, inputs, belowAuth>>

\* a sign-in, a sign-out or a token refresh: the auth client holds
\* nextSession and calls the listener of onAuthStateChange while it is
\* subscribed
AuthStateChange(nextSession) ==
  /\ nextSession # storedSession
  /\ storedSession' = nextSession
  /\ IF isMounted
     THEN /\ authSession' = nextSession
          /\ authUser' = UserOfSession(nextSession)
          /\ authLoading' = FALSE
          /\ lastNotified' = [applied |-> TRUE, session |-> nextSession]
     ELSE UNCHANGED <<authSession, authUser, authLoading, lastNotified>>
  /\ UNCHANGED <<isMounted, getSessionCall, inputs, belowAuth>>

\* the cleanup of the effect: isMounted = false, unsubscribe()
AuthUnmount ==
  /\ isMounted
  /\ isMounted' = FALSE
  /\ UNCHANGED <<authSession, authUser, authLoading, getSessionCall,
                 storedSession, lastNotified, inputs, belowAuth>>

NextAuth ==
  \/ GetSessionRead
  \/ InitializeSession
  \/ \E nextSession \in AuthSessions \cup {NoSession} : AuthStateChange(nextSession)
  \/ AuthUnmount

SpecAuth == Init /\ [][NextAuth]_vars

\* --------------------------- presence version: the canvasId prop changes
\* the canvas the component showed before the active one
PreviousCanvas == "cv2"

\* loadRectangles(canvasId): select('*').eq('canvas_id', canvasId)
\*                           .order('created_at', { ascending: true })
LoadRectanglesOf(req) ==
  /\ req \in loadReqs
  /\ loadReqs' = loadReqs \ {req}
  /\ \/ /\ \E s \in OrderedByCreatedAt({r \in rows : r.canvas_id = req.canvas_id}) :
             loadResps' = loadResps \cup
               {[c |-> req.c, canvas_id |-> req.canvas_id, ok |-> TRUE,
                 records |-> s]}
        /\ UNCHANGED inputs
     \/ /\ inputs < MaxInputs
        /\ inputs' = inputs + 1
        /\ loadResps' = loadResps \cup
             {[c |-> req.c, canvas_id |-> req.canvas_id, ok |-> FALSE,
               records |-> <<>>]}
  /\ UNCHANGED <<now, rows, nextDbId, nextTempId, clientVars, status, feed,
                 createReqs, createResps, updateReqs, updateResps,
                 sentVars, mergeVars, user, appVars, collabVars>>

\* the canvasId prop of c1 has just changed from the previous canvas to the
\* active one: the fetch of the first run of the effect is still in flight,
\* the second run has started its own
InitSwitch ==
  /\ InitWithLoads({"c1"}, {}, {InitialRow, ForeignRecord},
                   {[c |-> "c1", canvas_id |-> PreviousCanvas],
                    [c |-> "c1", canvas_id |-> ActiveCanvas]})
  /\ MergeIdle /\ SignedIn /\ CollabIdle

NextSwitch ==
  \/ Tick
  \/ \E c \in Clients, p \in ClickPoints : PresenceHandlePanEnd(c, p)
  \/ \E req \in loadReqs : LoadRectanglesOf(req)
  \/ \E req \in createReqs : CreateRectangle(req)
  \/ \E c \in Clients, resp \in loadResps : PresenceFetchResponse(c, resp)
  \/ \E c \in Clients, resp \in createResps : PresenceCreateResponse(c, resp)
  \/ \E c \in Clients : \E payload \in feed[c] : PresenceChange(c, payload)
  \/ \E c \in Clients : PresenceSubscribed(c)

SpecSwitch == InitSwitch /\ [][NextSwitch]_vars

\* ------------------------------------------------ Canvas: the pan gesture
\* displacements of the pointer from the point of the press, in px
MoveDeltas ==
  {[x |-> 1, y |-> -2], [x |-> 3, y |-> 0], [x |-> 0, y |-> -3]}

ReleaseTargets == {"background", "rectangle", "outside"}

Abs(v) == IF v < 0 THEN -v ELSE v

\* a test that takes the distance along the diagonal for the movement
MovedBeyondThresholdBothAxes(dx, dy) == Abs(dx) > 2 /\ Abs(dy) > 2

\* the test of handlePanMove: Math.abs(dx) > 2 || Math.abs(dy) > 2
MovedBeyondThreshold(dx, dy) == Abs(dx) > 2 \/ Abs(dy) > 2

\* handlePanStart: a press of the main button on the stage
HandlePanStart(c) ==
  /\ status[c] # "unmounted"
  /\ ~isPanning[c]
  /\ hasMoved' = [hasMoved EXCEPT ![c] = FALSE]
  /\ panReach' = [panReach EXCEPT ![c] = 0]
  /\ isPanning' = [isPanning EXCEPT ![c] = TRUE]
  /\ UNCHANGED <<canvasVars, mergeVars, user, collabVars, shellVars, authVars>>

\* handlePanMove: the pointer is at displacement d from the press
HandlePanMove(c, d) ==
  /\ status[c] # "unmounted"
  /\ isPanning[c]
  /\ hasMoved' = [hasMoved EXCEPT
                    ![c] = IF ~@ /\ MovedBeyondThreshold(d.x, d.y) THEN TRUE ELSE @]
  /\ panReach' = [panReach EXCEPT ![c] = Max(@, Max(Abs(d.x), Abs(d.y)))]
  /\ UNCHANGED <<canvasVars, mergeVars, user, collabVars, isPanning,
                 shellVars, authVars>>

\* the release of the button: handlePanEnd(event) when the release is on the
\* stage, then cancelPan of the window listener
HandlePanRelease(c, target, pointer) ==
  /\ status[c] # "unmounted"
  /\ isPanning[c]
  /\ isPanning' = [isPanning EXCEPT ![c] = FALSE]
  /\ hasMoved' = [hasMoved EXCEPT ![c] = FALSE]
  /\ IF target = "outside" \/ hasMoved[c] \/ target # "background"
     THEN UNCHANGED <<rectangles, selectedId, colorIndex, nextTempId,
                      createReqs, sentCreates, inputs>>
     ELSE IF selectedId[c] # NoId
          THEN /\ selectedId' = [selectedId EXCEPT ![c] = NoId]
               /\ UNCHANGED <<rectangles, colorIndex, nextTempId, createReqs,
                              sentCreates, inputs>>
          ELSE /\ inputs < MaxInputs
               /\ CreateRectangleAt(c, pointer)
               /\ inputs' = inputs + 1
  /\ UNCHANGED <<now, rows, nextDbId, isLoadingRectangles, syncError,
                 pendingUpdates, status, feed, loadReqs, loadResps,
                 createResps, updateReqs, updateResps,
                 sentUpdates, mergeVars, user, collabVars, panReach,
                 shellVars, authVars>>

NextGesture ==
  \/ \E c \in Clients : HandlePanStart(c)
  \/ \E c \in Clients, d \in MoveDeltas : HandlePanMove(c, d)
  \/ \E c \in Clients, target \in ReleaseTargets, p \in ClickPoints :
       HandlePanRelease(c, target, p)
  \/ \E req \in loadReqs : LoadRectangles(req)
  \/ \E req \in createReqs : CreateRectangle(req)
  \/ \E c \in Clients, resp \in loadResps : LoadResponse(c, resp)
  \/ \E c \in Clients, resp \in createResps : CreateResponse(c, resp)

SpecGesture == Init /\ [][NextGesture]_vars

\* ------------------------------------------- database.ts: updateRectangle
\* the ids updateRectangle is called with: a row of the active canvas, a row
\* of another canvas, no row
UpdateIds == {InitialRow.id, ForeignRecord.id, DbId(9)}

\* updateRectangleRecord(id, {x, y, canvas_id: canvasId, updated_at}) is called
CallUpdateRectangle(c, id, position) ==
  /\ inputs < MaxInputs
  /\ status[c] # "unmounted"
  /\ inputs' = inputs + 1
  /\ updateReqs' = updateReqs \cup
       {[c |-> c, id |-> id, x |-> position.x, y |-> position.y,
         canvas_id |-> ActiveCanvas, updated_at |-> ToISOString(now)]}
  /\ UNCHANGED <<now, rows, nextDbId, nextTempId, clientVars, status, feed,
                 loadReqs, loadResps, createReqs, createResps, updateResps,
                 sentVars, mergeVars, user, appVars, collabVars>>

\* a loaded client, and a table that also holds a row of another canvas
InitBackend ==
  /\ InitWithRows({}, {"c1"}, {InitialRow, ForeignRecord})
  /\ MergeIdle /\ SignedIn /\ CollabIdle

NextBackend ==
  \/ Tick
  \/ \E c \in Clients, id \in UpdateIds, p \in DragPoints :
       CallUpdateRectangle(c, id, p)
  \/ \E req \in updateReqs : UpdateRectangle(req)
  \/ \E c \in Clients, resp \in updateResps : UpdateResponse(c, resp)
  \/ \E c \in Clients : \E payload \in feed[c] : HandleUpdateEvent(c, payload)

SpecBackend == InitBackend /\ [][NextBackend]_vars

\* ------------------------------------------------ Canvas: two rectangles
SecondRow ==
  [InitialRow EXCEPT !.id = DbId(10), !.x = 1200, !.color = 1,
                     !.created_at = TicksPerMs, !.updated_at = TicksPerMs]

\* one client on a canvas of two rectangles
InitDrag ==
  /\ InitWithRows({"c1"}, {}, {InitialRow, SecondRow})
  /\ MergeIdle /\ SignedIn /\ CollabIdle

SpecDrag == InitDrag /\ [][Next]_vars

\* ------------------------------------------------- Canvas: many creates
MaxCreates == 9

\* createRectangleAt called once more, the earlier create settled
CreateNext(c, position) ==
  /\ status[c] # "unmounted"
  /\ nextTempId <= MaxCreates
  /\ createReqs = {} /\ createResps = {}
  /\ CreateRectangleAt(c, position)
  /\ UNCHANGED <<now, rows, nextDbId, isLoadingRectangles, syncError,
                 pendingUpdates, status, feed, loadReqs, loadResps,
                 createResps, updateReqs, updateResps, inputs,
                 sentUpdates, mergeVars, user, appVars, collabVars>>

NextColors ==
  \/ \E c \in Clients, p \in ClickPoints : CreateNext(c, p)
  \/ \E req \in createReqs : CreateRectangle(req)
  \/ \E c \in Clients, resp \in createResps : CreateResponse(c, resp)

SpecColors == Init /\ [][NextColors]_vars

\* ------------------------------------------- Canvas: events of other writers
\* rows that other writers add to the active canvas; the last two were created
\* in the same millisecond
OrderRows ==
  {[InitialRow EXCEPT !.id = DbId(4), !.x = 400,
                      !.created_at = 3 * TicksPerMs, !.updated_at = 3 * TicksPerMs],
   [InitialRow EXCEPT !.id = DbId(5), !.x = 500,
                      !.created_at = 2 * TicksPerMs, !.updated_at = 2 * TicksPerMs],
   [InitialRow EXCEPT !.id = DbId(6), !.x = 600,
                      !.created_at = 2 * TicksPerMs, !.updated_at = 2 * TicksPerMs]}

\* another writer inserts a row; the channel of every subscriber gets the
\* INSERT event
RemoteInsert(row) ==
  /\ inputs < MaxInputs
  /\ ~\E old \in rows : old.id = row.id
  /\ inputs' = inputs + 1
  /\ rows' = rows \cup {row}
  /\ Publish("INSERT", row)
  /\ UNCHANGED <<now, nextDbId, nextTempId, clientVars, status, netVars,
                 sentVars, mergeVars, user, appVars, collabVars>>

\* another writer moves a row; the channel of every subscriber gets the
\* UPDATE event
RemoteUpdate(old, p) ==
  LET row == [old EXCEPT !.x = p.x, !.y = p.y, !.updated_at = old.updated_at + 1]
  IN /\ inputs < MaxInputs
     /\ old \in rows
     /\ inputs' = inputs + 1
     /\ rows' = (rows \ {old}) \cup {row}
     /\ Publish("UPDATE", row)
     /\ UNCHANGED <<now, nextDbId, nextTempId, clientVars, status, netVars,
                    sentVars, mergeVars, user, appVars, collabVars>>

\* two clients that are loaded and subscribed, with the same store
InitOrder == InitMounted({}, Clients) /\ MergeIdle /\ SignedIn /\ CollabIdle

NextOrder ==
  \/ \E row \in OrderRows : RemoteInsert(row)
  \/ \E old \in rows, p \in ClickPoints : RemoteUpdate(old, p)
  \/ \E c \in Clients : \E payload \in feed[c] : HandleInsertEvent(c, payload)
  \/ \E c \in Clients : \E payload \in feed[c] : HandleUpdateEvent(c, payload)

SpecOrder == InitOrder /\ [][NextOrder]_vars

\* ------------------------------ Canvas, the first version (default export)
\* This version keeps its rectangles in the useRectangles hook, has no
\* change feed for objects and never learns the ids the backend assigns.

\* addRectangle: `r-${Date.now()}-${random}`
LocalId(n) == [t |-> "local", n |-> n]

RECURSIVE AddRectangles(_, _, _)
\* items.forEach((r) => addRectangle({...})): each item is appended under a
\* new local id, starting with number n
AddRectangles(current, items, n) ==
  IF items = <<>> THEN current
  ELSE AddRectangles(
         Append(current,
                [id |-> LocalId(n), x |-> items[1].x, y |-> items[1].y,
                 width |-> items[1].width, height |-> items[1].height,
                 color |-> items[1].color, canvasId |-> ActiveCanvas,
                 updatedAt |-> NoTs]),
         Tail(items), n + 1)

\* the clamp of the drag handlers
LegacyClamp(rectangle, position) ==
  [x |-> Max(0, Min(position.x,
                    WORKSPACE_SIZE - Max(MIN_RECT_SIZE, rectangle.width))),
   y |-> Max(0, Min(position.y,
                    WORKSPACE_SIZE - Max(MIN_RECT_SIZE, rectangle.height)))]

\* updateRectangle(id, { x, y }) of the hook
LegacyUpdateLocal(current, id, position) ==
  [i \in DOMAIN current |->
     IF current[i].id = id
     THEN [current[i] EXCEPT !.x = position.x, !.y = position.y]
     ELSE current[i]]

\* handleBackgroundClick: addRectangle, then dbCreateRectangle
LegacyHandleBackgroundClick(c, pointer) ==
  LET width == Max(DEFAULT_RECT_SIZE, MIN_RECT_SIZE)
      height == Max(DEFAULT_RECT_SIZE, MIN_RECT_SIZE)
      x == Max(0, Min(pointer.x, WORKSPACE_SIZE - width))
      y == Max(0, Min(pointer.y, WORKSPACE_SIZE - height))
      id == LocalId(nextTempId)
      request == [c |-> c, tempId |-> id, x |-> x, y |-> y, width |-> width,
                  height |-> height, color |-> colorIndex[c],
                  canvas_id |-> ActiveCanvas, created_by |-> user[c]]
  IN /\ status[c] # "unmounted"
     /\ inputs < MaxInputs
     /\ inputs' = inputs + 1
     /\ rectangles' = [rectangles EXCEPT
                         ![c] = Append(@, [id |-> id, x |-> x, y |-> y,
                                           width |-> width, height |-> height,
                                           color |-> colorIndex[c],
                                           canvasId |-> ActiveCanvas,
                                           updatedAt |-> NoTs])]
     /\ selectedId' = [selectedId EXCEPT ![c] = id]
     /\ colorIndex' = [colorIndex EXCEPT
                         ![c] = IF @ + 1 >= NumColors THEN 0 ELSE @ + 1]
     /\ nextTempId' = nextTempId + 1
     /\ createReqs' = createReqs \cup {request}
     /\ sentCreates' = sentCreates \cup {request}
     /\ UNCHANGED <<now, rows, nextDbId, isLoadingRectangles, syncError,
                    pendingUpdates, status, feed, loadReqs, loadResps,
                    createResps, updateReqs, updateResps, sentUpdates,
                    mergeVars, user, appVars, collabVars>>

\* Rectangle onDragMove: the hook is updated and dbUpdateRectangle is called
LegacyOnDragMove(c, id, position) ==
  LET k == FindIndex(rectangles[c], id)
      clamped == LegacyClamp(rectangles[c][k], position)
  IN /\ inputs < MaxInputs
     /\ HasId(rectangles[c], id)
     /\ inputs' = inputs + 1
     /\ rectangles' = [rectangles EXCEPT
                         ![c] = LegacyUpdateLocal(@, id, clamped)]
     /\ updateReqs' = updateReqs \cup
          {[c |-> c, id |-> id, x |-> clamped.x, y |-> clamped.y,
            canvas_id |-> ActiveCanvas, updated_at |-> ToISOString(now)]}
     /\ UNCHANGED <<now, rows, nextDbId, nextTempId, selectedId, colorIndex,
                    isLoadingRectangles, syncError, pendingUpdates, status,
                    feed, loadReqs, loadResps, createReqs, createResps,
                    updateResps, sentVars, mergeVars, user, appVars, collabVars>>

\* Rectangle onDragEnd: the hook is updated, nothing is written
LegacyOnDragEnd(c, id, position) ==
  LET k == FindIndex(rectangles[c], id)
      clamped == LegacyClamp(rectangles[c][k], position)
  IN /\ inputs < MaxInputs
     /\ HasId(rectangles[c], id)
     /\ inputs' = inputs + 1
     /\ rectangles' = [rectangles EXCEPT
                         ![c] = LegacyUpdateLocal(@, id, clamped)]
     /\ UNCHANGED <<now, rows, nextDbId, nextTempId, selectedId, colorIndex,
                    isLoadingRectangles, syncError, pendingUpdates, status,
                    feed, netVars, sentVars, mergeVars, user, appVars, collabVars>>

\* the initial load: every loaded item goes through addRectangle; a failed
\* load is logged
LegacyLoadResponse(c, resp) ==
  /\ resp \in loadResps
  /\ resp.c = c
  /\ loadResps' = loadResps \ {resp}
  /\ IF resp.ok /\ resp.records # <<>>
     THEN /\ rectangles' = [rectangles EXCEPT
                              ![c] = AddRectangles(@, resp.records, nextTempId)]
          /\ nextTempId' = nextTempId + Len(resp.records)
          /\ selectedId' = [selectedId EXCEPT
                              ![c] = LocalId(nextTempId + Len(resp.records) - 1)]
     ELSE UNCHANGED <<rectangles, nextTempId, selectedId>>
  /\ UNCHANGED <<now, rows, nextDbId, colorIndex, isLoadingRectangles,
                 syncError, pendingUpdates, status, feed, loadReqs,
                 createReqs, createResps, updateReqs, updateResps, inputs,
                 sentVars, mergeVars, user, appVars, collabVars>>

\* updateRectangle(id, updates) of the first database module:
\* update(payload).eq('id', id).eq('canvas_id', CANVAS_ID).select().single()
LegacyUpdateRectangle(req) ==
  /\ req \in updateReqs
  /\ updateReqs' = updateReqs \ {req}
  /\ IF \E old \in rows : old.id = req.id /\ old.canvas_id = ActiveCanvas
     THEN \E old \in rows :
            LET row == [old EXCEPT !.x = req.x, !.y = req.y,
                                   !.updated_at = req.updated_at]
            IN /\ old.id = req.id /\ old.canvas_id = ActiveCanvas
               /\ rows' = (rows \ {old}) \cup {row}
               /\ updateResps' = updateResps \cup
                    {[c |-> req.c, id |-> req.id, ok |-> TRUE, record |-> row]}
               /\ Publish("UPDATE", row)
     ELSE /\ updateResps' = updateResps \cup
               {[c |-> req.c, id |-> req.id, ok |-> FALSE, record |-> NoRow]}
          /\ UNCHANGED <<rows, feed>>
  /\ UNCHANGED <<now, nextDbId, nextTempId, clientVars, status, loadReqs,
                 loadResps, createReqs, createResps, inputs, sentVars,
                 mergeVars, user, appVars, collabVars>>

\* the awaited dbCreateRectangle / dbUpdateRectangle: the result is dropped,
\* an error is logged
LegacyCreateSettled(c, resp) ==
  /\ resp \in createResps
  /\ resp.c = c
  /\ createResps' = createResps \ {resp}
  /\ UNCHANGED <<now, rows, nextDbId, nextTempId, clientVars, status, feed,
                 loadReqs, loadResps, createReqs, updateReqs, updateResps,
                 inputs, sentVars, mergeVars, user, appVars, collabVars>>

LegacyUpdateSettled(c, resp) ==
  /\ resp \in updateResps
  /\ resp.c = c
  /\ updateResps' = updateResps \ {resp}
  /\ UNCHANGED <<now, rows, nextDbId, nextTempId, clientVars, status, feed,
                 loadReqs, loadResps, createReqs, createResps, updateReqs,
                 inputs, sentVars, mergeVars, user, appVars, collabVars>>

InitLegacy == InitMounted({"c1"}, {}) /\ MergeIdle /\ SignedIn /\ CollabIdle

NextLegacy ==
  \/ Tick
  \/ \E c \in Clients, p \in ClickPoints : LegacyHandleBackgroundClick(c, p)
  \/ \E c \in Clients : \E i \in DOMAIN rectangles[c], p \in DragPoints :
       LegacyOnDragMove(c, rectangles[c][i].id, p)
  \/ \E c \in Clients : \E i \in DOMAIN rectangles[c], p \in DragPoints :
       LegacyOnDragEnd(c, rectangles[c][i].id, p)
  \/ \E req \in loadReqs : LoadRectangles(req)
  \/ \E req \in createReqs : CreateRectangle(req)
  \/ \E req \in updateReqs : LegacyUpdateRectangle(req)
  \/ \E c \in Clients, resp \in loadResps : LegacyLoadResponse(c, resp)
  \/ \E c \in Clients, resp \in createResps : LegacyCreateSettled(c, resp)
  \/ \E c \in Clients, resp \in updateResps : LegacyUpdateSettled(c, resp)

SpecLegacy == InitLegacy /\ [][NextLegacy]_vars

\* ------------------ presence version: the collaboration channel and cursors
\* The clock is in milliseconds; Date.now() and performance.now() both read it.

CURSOR_TTL == 5000
SWEEP_INTERVAL == 2000
CURSOR_THROTTLE == 30
CURSOR_MARGIN == 80

\* pointer events come every SendStep ms, for at most MaxSendClock ms
SendStep == CURSOR_THROTTLE \div 3
MaxSendClock == 2 * CURSOR_THROTTLE + SendStep
\* the receiving side is observed every RemoteStep ms, MaxRemoteSteps times
RemoteStep == SWEEP_INTERVAL \div 2
MaxRemoteSteps == 7
MaxClock == MaxRemoteSteps * RemoteStep
\* channel operations one client logs, and events queued for one client
MaxCursorLog == 4
MaxQueue == 2

NoPosition == [x |-> -1, y |-> -1]
\* inside the workspace and the viewport; inside the workspace, outside the
\* viewport; outside the workspace
PointerPoints ==
  {[x |-> 100, y |-> 100], [x |-> 2900, y |-> 2900], [x |-> -5, y |-> 50]}
ViewportSize == [width |-> 1200, height |-> 800]

InWorkspace(pointer) ==
  /\ pointer.x >= 0 /\ pointer.x <= WORKSPACE_SIZE
  /\ pointer.y >= 0 /\ pointer.y <= WORKSPACE_SIZE

\* the clients whose collaboration channel is joined, other than c
\* (broadcast: { self: false })
Listeners(c) == {cl \in Clients \ {c} : collabStatus[cl] = "SUBSCRIBED"}

\* the queues after client c has sent msg on the channel
Delivered(c, queues, msg) ==
  [cl \in Clients |->
     IF cl \in Listeners(c) THEN Append(queues[cl], msg) ELSE queues[cl]]

QueuesHaveRoom(c) == \A cl \in Listeners(c) : Len(cursorMsgs[cl]) < MaxQueue

PositionMessage(c, position) ==
  [kind |-> "cursor", userId |-> user[c], visible |-> TRUE,
   x |-> position.x, y |-> position.y, timestamp |-> clock]

HideMessage(c) ==
  [kind |-> "cursor", userId |-> user[c], visible |-> FALSE,
   x |-> NoPosition.x, y |-> NoPosition.y, timestamp |-> clock]

\* what one client did on its channels, in order
LogEntry(c, kind, by) ==
  [kind |-> kind, channel |-> cursorChannel[c], at |-> clock, by |-> by]

RECURSIVE CountKind(_, _)
CountKind(log, kind) ==
  IF log = <<>> THEN 0
  ELSE (IF log[1].kind = kind THEN 1 ELSE 0) + CountKind(Tail(log), kind)

\* broadcastCursorPosition without the check of cursorVisibleRef in the
\* branch of a null position
BroadcastCursorPositionAlwaysHide(open, ready, signedIn, visible, last, t, position) ==
  IF ~open \/ ~ready \/ ~signedIn
  THEN [send |-> "none", visible |-> visible, last |-> last]
  ELSE IF position # NoPosition
       THEN IF visible /\ t - last < CURSOR_THROTTLE
            THEN [send |-> "none", visible |-> visible, last |-> last]
            ELSE [send |-> "position", visible |-> TRUE, last |-> t]
       ELSE [send |-> "hide", visible |-> FALSE, last |-> 0]

\* broadcastCursorPosition: what is sent, and the two refs afterwards
BroadcastCursorPosition(open, ready, signedIn, visible, last, t, position) ==
  IF ~open \/ ~ready \/ ~signedIn
  THEN [send |-> "none", visible |-> visible, last |-> last]
  ELSE IF position # NoPosition
       THEN IF visible /\ t - last < CURSOR_THROTTLE
            THEN [send |-> "none", visible |-> visible, last |-> last]
            ELSE [send |-> "position", visible |-> TRUE, last |-> t]
       ELSE IF visible
            THEN [send |-> "hide", visible |-> FALSE, last |-> 0]
            ELSE [send |-> "none", visible |-> visible, last |-> last]

\* the cleanup of the channel effect sends nothing
CleanupSendsNothing(ready) == FALSE

\* the cleanup of the channel effect: if (channelReadyRef.current) send hide
CleanupSendsHide(ready) == ready

\* the sweep keeps every cursor
SweepKeepsAll(cursors, t) == cursors

\* the interval callback: keep a cursor iff now - updatedAt <= 5000
SweepStaleCursors(cursors, t) ==
  {cu \in cursors : t - cu.updatedAt <= CURSOR_TTL}

\* a handler that also stores the messages of the client's own user
ApplyCursorBroadcastOfAnyone(cursors, self, data) ==
  IF data.userId = NoUser
  THEN cursors
  ELSE IF ~data.visible \/ data.x = NoPosition.x \/ data.y = NoPosition.y
       THEN {cu \in cursors : cu.userId # data.userId}
       ELSE {cu \in cursors : cu.userId # data.userId} \cup
              {[userId |-> data.userId, x |-> data.x, y |-> data.y,
                updatedAt |-> data.timestamp]}

\* handleCursorBroadcast on the cursor map of a client of user self
ApplyCursorBroadcast(cursors, self, data) ==
  IF data.userId = NoUser \/ data.userId = self
  THEN cursors
  ELSE IF ~data.visible \/ data.x = NoPosition.x \/ data.y = NoPosition.y
       THEN {cu \in cursors : cu.userId # data.userId}
       ELSE {cu \in cursors : cu.userId # data.userId} \cup
              {[userId |-> data.userId, x |-> data.x, y |-> data.y,
                updatedAt |-> data.timestamp]}

\* the leave handler leaves the cursor map alone
DeleteCursorKeepsAll(cursors, key) == cursors

\* the leave handler on the cursor map: delete next[key]
DeleteCursor(cursors, key) == {cu \in cursors : cu.userId # key}

\* remoteCursorPositions with the stage at the origin and scale 1
RemoteCursorPositions(cursors) ==
  {cu \in cursors :
     /\ cu.x >= -CURSOR_MARGIN
     /\ cu.x <= ViewportSize.width + CURSOR_MARGIN
     /\ cu.y >= -CURSOR_MARGIN
     /\ cu.y <= ViewportSize.height + CURSOR_MARGIN}

\* Object.entries(channel.presenceState()): the sessions, key by key
PresenceSlots ==
  <<[key |-> "u1", conn |-> "c1"], [key |-> "u1", conn |-> "p1"],
    [key |-> "u2", conn |-> "c2"], [key |-> "u2", conn |-> "p2"]>>

IsTracked(slot) ==
  \E session \in presenceState :
    session.key = slot.key /\ session.conn = slot.conn

Sessions == SelectSeq(PresenceSlots, IsTracked)

\* the place of the display name of a user in the order of localeCompare
NameRank(id) == IF id = "u1" THEN 1 ELSE 2

InsertByName(entry, sorted) ==
  LET before == SelectSeq(sorted,
                          LAMBDA q : NameRank(q.id) <= NameRank(entry.id))
      after == SelectSeq(sorted,
                         LAMBDA q : ~(NameRank(q.id) <= NameRank(entry.id)))
  IN before \o <<entry>> \o after

RECURSIVE SortByName(_)
\* sort((a, b) => a.name.localeCompare(b.name)); the name of a user is its id
SortByName(list) ==
  IF list = <<>> THEN <<>>
  ELSE InsertByName(list[Len(list)], SortByName(SubSeq(list, 1, Len(list) - 1)))

RECURSIVE UniqueSessionsNoCheck(_, _, _)
\* the loop of syncPresenceState without the unique.has(id) check
UniqueSessionsNoCheck(sessions, self, unique) ==
  IF sessions = <<>> THEN unique
  ELSE UniqueSessionsNoCheck(
         Tail(sessions), self,
         Append(unique, [id |-> sessions[1].key,
                         isSelf |-> sessions[1].key = self]))

RECURSIVE UniqueSessions(_, _, _)
\* the Map of syncPresenceState: the first session of an id is kept
UniqueSessions(sessions, self, unique) ==
  IF sessions = <<>> THEN unique
  ELSE UniqueSessions(
         Tail(sessions), self,
         IF \E k \in DOMAIN unique : unique[k].id = sessions[1].key
         THEN unique
         ELSE Append(unique, [id |-> sessions[1].key,
                              isSelf |-> sessions[1].key = self]))

SyncPresenceState(sessions, self) ==
  SortByName(UniqueSessions(sessions, self, <<>>))

\* a pointer event of the stage, through broadcastCursorPosition
PointerEvent(c, position) ==
  LET out == BroadcastCursorPosition(cursorChannel[c] # 0, channelReady[c],
                                     user[c] # NoUser, cursorVisible[c],
                                     lastCursorSent[c], clock, position)
  IN /\ status[c] # "unmounted"
     /\ out.send # "none"
          => Len(cursorLog[c]) < MaxCursorLog /\ QueuesHaveRoom(c)
     /\ cursorVisible' = [cursorVisible EXCEPT ![c] = out.visible]
     /\ lastCursorSent' = [lastCursorSent EXCEPT ![c] = out.last]
     /\ cursorLog' =
          IF out.send = "none" THEN cursorLog
          ELSE [cursorLog EXCEPT
                  ![c] = Append(@, LogEntry(c, out.send, "pointer"))]
     /\ cursorMsgs' =
          IF out.send = "position"
          THEN Delivered(c, cursorMsgs, PositionMessage(c, position))
          ELSE IF out.send = "hide"
               THEN Delivered(c, cursorMsgs, HideMessage(c))
               ELSE cursorMsgs
     /\ UNCHANGED <<canvasVars, mergeVars, user, appVars, clock, nextSweep,
                    cursorChannel, channelReady, collabStatus, remoteCursors,
                    presenceState, presenceUsers>>

HandlePointerMove(c, pointer) ==
  PointerEvent(c, IF InWorkspace(pointer) THEN pointer ELSE NoPosition)

HandlePointerLeave(c) == PointerEvent(c, NoPosition)

\* the channel effect: supabase.channel(...), handlers, subscribe
CollabSetup(c) ==
  /\ status[c] # "unmounted"
  /\ user[c] # NoUser
  /\ cursorChannel[c] = 0
  /\ cursorChannel' = [cursorChannel EXCEPT
                         ![c] = CountKind(cursorLog[c], "removed") + 1]
  /\ channelReady' = [channelReady EXCEPT ![c] = FALSE]
  /\ collabStatus' = [collabStatus EXCEPT ![c] = "joining"]
  /\ UNCHANGED <<canvasVars, mergeVars, user, appVars, clock, nextSweep, cursorVisible,
                 lastCursorSent, cursorLog, cursorMsgs, remoteCursors,
                 presenceState, presenceUsers>>

\* the subscribe callback with SUBSCRIBED: ready, channel.track
CollabSubscribed(c) ==
  /\ cursorChannel[c] # 0
  /\ collabStatus[c] \in {"joining", "CHANNEL_ERROR"}
  /\ collabStatus' = [collabStatus EXCEPT ![c] = "SUBSCRIBED"]
  /\ channelReady' = [channelReady EXCEPT ![c] = TRUE]
  /\ presenceState' = presenceState \cup {[key |-> user[c], conn |-> c]}
  /\ UNCHANGED <<canvasVars, mergeVars, user, appVars, clock, nextSweep, cursorChannel,
                 cursorVisible, lastCursorSent, cursorLog, cursorMsgs,
                 remoteCursors, presenceUsers>>

\* the queues after the connection of c has gone: what was on its way to c is
\* lost, the others get a presence leave for its key
AfterLeave(c) ==
  [cl \in Clients |->
     IF cl = c THEN <<>>
     ELSE IF cl \in Listeners(c) /\ collabStatus[c] = "SUBSCRIBED"
          THEN Append(cursorMsgs[cl], [kind |-> "leave", userId |-> user[c],
                                       visible |-> FALSE,
                                       x |-> NoPosition.x, y |-> NoPosition.y,
                                       timestamp |-> clock])
          ELSE cursorMsgs[cl]]

\* the subscribe callback with CHANNEL_ERROR
CollabDown(c) ==
  /\ collabStatus[c] = "SUBSCRIBED"
  /\ QueuesHaveRoom(c)
  /\ collabStatus' = [collabStatus EXCEPT ![c] = "CHANNEL_ERROR"]
  /\ channelReady' = [channelReady EXCEPT ![c] = FALSE]
  /\ presenceState' = {session \in presenceState : session.conn # c}
  /\ cursorMsgs' = AfterLeave(c)
  /\ UNCHANGED <<canvasVars, mergeVars, user, appVars, clock, nextSweep, cursorChannel,
                 cursorVisible, lastCursorSent, cursorLog, remoteCursors,
                 presenceUsers>>

\* the cleanup of the channel effect
CollabTeardown(c) ==
  LET hide == CleanupSendsHide(channelReady[c])
      sent == IF hide
              THEN Delivered(c, cursorMsgs, HideMessage(c))
              ELSE cursorMsgs
  IN /\ cursorChannel[c] # 0
     /\ Len(cursorLog[c]) + 2 <= MaxCursorLog
     /\ \A cl \in Listeners(c) : Len(cursorMsgs[cl]) + 2 <= MaxQueue
     /\ cursorLog' =
          [cursorLog EXCEPT
             ![c] = (IF hide THEN Append(@, LogEntry(c, "hide", "cleanup"))
                     ELSE @) \o <<LogEntry(c, "removed", "cleanup")>>]
     /\ channelReady' = [channelReady EXCEPT ![c] = FALSE]
     /\ cursorChannel' = [cursorChannel EXCEPT ![c] = 0]
     /\ remoteCursors' = [remoteCursors EXCEPT
                            ![c] = {cu \in @ : cu.userId # user[c]}]
     /\ presenceUsers' = [presenceUsers EXCEPT
                            ![c] = SelectSeq(@, LAMBDA q : q.id # user[c])]
     /\ collabStatus' = [collabStatus EXCEPT ![c] = "none"]
     /\ presenceState' = {session \in presenceState : session.conn # c}
     /\ cursorMsgs' =
          [cl \in Clients |->
             IF cl = c THEN <<>>
             ELSE IF cl \in Listeners(c) /\ collabStatus[c] = "SUBSCRIBED"
                  THEN Append(sent[cl], [kind |-> "leave",
                                         userId |-> user[c],
                                         visible |-> FALSE,
                                         x |-> NoPosition.x,
                                         y |-> NoPosition.y,
                                         timestamp |-> clock])
                  ELSE sent[cl]]
     /\ UNCHANGED <<canvasVars, mergeVars, user, appVars, clock, nextSweep,
                    cursorVisible, lastCursorSent>>

\* the broadcast handler of the channel, on the next queued event
HandleCursorBroadcast(c) ==
  /\ collabStatus[c] = "SUBSCRIBED"
  /\ cursorMsgs[c] # <<>>
  /\ Head(cursorMsgs[c]).kind = "cursor"
  /\ remoteCursors' = [remoteCursors EXCEPT
                         ![c] = ApplyCursorBroadcast(@, user[c],
                                                     Head(cursorMsgs[c]))]
  /\ cursorMsgs' = [cursorMsgs EXCEPT ![c] = Tail(@)]
  /\ UNCHANGED <<canvasVars, mergeVars, user, appVars, clock, nextSweep, cursorChannel,
                 channelReady, collabStatus, cursorVisible, lastCursorSent,
                 cursorLog, presenceState, presenceUsers>>

\* the presence leave handler: the cursor of the key goes, the roster is
\* computed again
HandlePresenceLeave(c) ==
  /\ collabStatus[c] = "SUBSCRIBED"
  /\ cursorMsgs[c] # <<>>
  /\ Head(cursorMsgs[c]).kind = "leave"
  /\ remoteCursors' = [remoteCursors EXCEPT
                         ![c] = DeleteCursor(@, Head(cursorMsgs[c]).userId)]
  /\ presenceUsers' = [presenceUsers EXCEPT
                         ![c] = SyncPresenceState(Sessions, user[c])]
  /\ cursorMsgs' = [cursorMsgs EXCEPT ![c] = Tail(@)]
  /\ UNCHANGED <<canvasVars, mergeVars, user, appVars, clock, nextSweep, cursorChannel,
                 channelReady, collabStatus, cursorVisible, lastCursorSent,
                 cursorLog, presenceState>>

\* presence sync / join: syncPresenceState
HandlePresenceSync(c) ==
  /\ collabStatus[c] = "SUBSCRIBED"
  /\ presenceUsers[c] # SyncPresenceState(Sessions, user[c])
  /\ presenceUsers' = [presenceUsers EXCEPT
                         ![c] = SyncPresenceState(Sessions, user[c])]
  /\ UNCHANGED <<canvasVars, mergeVars, user, appVars, clock, nextSweep, cursorChannel,
                 channelReady, collabStatus, cursorVisible, lastCursorSent,
                 cursorLog, cursorMsgs, remoteCursors, presenceState>>

\* the interval callback of the stale-cursor sweep
SweepCursors(c) ==
  /\ status[c] # "unmounted"
  /\ clock = nextSweep[c]
  /\ remoteCursors' = [remoteCursors EXCEPT
                         ![c] = SweepStaleCursors(@, clock)]
  /\ nextSweep' = [nextSweep EXCEPT ![c] = @ + SWEEP_INTERVAL]
  /\ UNCHANGED <<canvasVars, mergeVars, user, appVars, clock, cursorChannel,
                 channelReady, collabStatus, cursorVisible, lastCursorSent,
                 cursorLog, cursorMsgs, presenceState, presenceUsers>>

SweepDue == \E c \in Clients : status[c] # "unmounted" /\ clock = nextSweep[c]

\* SendStep ms pass between two pointer events
TickCursor ==
  /\ clock + SendStep <= MaxSendClock
  /\ clock' = clock + SendStep
  /\ UNCHANGED <<canvasVars, mergeVars, user, appVars, nextSweep, cursorChannel,
                 channelReady, collabStatus, cursorVisible, lastCursorSent,
                 cursorLog, cursorMsgs, remoteCursors, presenceState,
                 presenceUsers>>

\* the channel holds nothing that was sent before the current RemoteStep
QueuesFresh ==
  \A c \in Clients : \A i \in DOMAIN cursorMsgs[c] :
    cursorMsgs[c][i].timestamp = clock

\* RemoteStep ms pass: the timers that are due have run and the channel has
\* delivered what is older than one step
AdvanceClock ==
  /\ clock + RemoteStep <= MaxClock
  /\ ~SweepDue
  /\ QueuesFresh
  /\ clock' = clock + RemoteStep
  /\ UNCHANGED <<canvasVars, mergeVars, user, appVars, nextSweep, cursorChannel,
                 channelReady, collabStatus, cursorVisible, lastCursorSent,
                 cursorLog, cursorMsgs, remoteCursors, presenceState,
                 presenceUsers>>

\* the state after the first render of the clients in M: the channel effect
\* and the sweep effect have run
CollabMounted(M) ==
  /\ clock = 0
  /\ nextSweep = [c \in Clients |-> IF c \in M THEN SWEEP_INTERVAL ELSE 0]
  /\ cursorChannel = [c \in Clients |-> IF c \in M THEN 1 ELSE 0]
  /\ channelReady = [c \in Clients |-> FALSE]
  /\ collabStatus = [c \in Clients |-> IF c \in M THEN "joining" ELSE "none"]
  /\ cursorVisible = [c \in Clients |-> FALSE]
  /\ lastCursorSent = [c \in Clients |-> 0]
  /\ cursorLog = [c \in Clients |-> <<>>]
  /\ cursorMsgs = [c \in Clients |-> <<>>]
  /\ remoteCursors = [c \in Clients |-> {}]
  /\ presenceState = {}
  /\ presenceUsers = [c \in Clients |-> <<>>]

\* one client and its pointer
InitCursor ==
  InitMounted({"c1"}, {}) /\ MergeIdle /\ SignedIn /\ CollabMounted({"c1"})

NextCursor ==
  \/ TickCursor
  \/ \E c \in Clients, pointer \in PointerPoints : HandlePointerMove(c, pointer)
  \/ \E c \in Clients : HandlePointerLeave(c)
  \/ \E c \in Clients : CollabSetup(c)
  \/ \E c \in Clients : CollabSubscribed(c)
  \/ \E c \in Clients : CollabDown(c)
  \/ \E c \in Clients : CollabTeardown(c)
  \/ \E c \in Clients : HandlePresenceSync(c)

SpecCursor == InitCursor /\ [][NextCursor]_vars

\* The receiving side.  The other clients on the channel run the same
\* component; here they are the connections of Peers, of which only what
\* they put on the channel is kept: their presence and their cursor messages.
\* The channel effect of the receiving client runs once.
Peers == {[key |-> "u1", conn |-> "p1"], [key |-> "u2", conn |-> "p2"]}

\* a peer has subscribed: channel.track({ userId, name, color })
PeerTrack(peer) ==
  /\ peer \notin presenceState
  /\ presenceState' = presenceState \cup {peer}
  /\ UNCHANGED <<canvasVars, mergeVars, user, appVars, clock, nextSweep, cursorChannel,
                 channelReady, collabStatus, cursorVisible, lastCursorSent,
                 cursorLog, cursorMsgs, remoteCursors, presenceUsers>>

\* the connection of a peer has gone, with or without its cleanup: the
\* subscribed clients get a presence leave for its key
PeerUntrack(peer) ==
  /\ peer \in presenceState
  /\ \A c \in Clients : Len(cursorMsgs[c]) < MaxQueue
  /\ presenceState' = presenceState \ {peer}
  /\ cursorMsgs' =
       [c \in Clients |->
          IF collabStatus[c] = "SUBSCRIBED"
          THEN Append(cursorMsgs[c], [kind |-> "leave", userId |-> peer.key,
                                      visible |-> FALSE,
                                      x |-> NoPosition.x, y |-> NoPosition.y,
                                      timestamp |-> clock])
          ELSE cursorMsgs[c]]
  /\ UNCHANGED <<canvasVars, mergeVars, user, appVars, clock, nextSweep, cursorChannel,
                 channelReady, collabStatus, cursorVisible, lastCursorSent,
                 cursorLog, remoteCursors, presenceUsers>>

\* a subscribed peer has sent what broadcastCursorPosition sends: a position
\* inside the workspace, or visible: false
PeerBroadcast(peer, visible, position) ==
  /\ peer \in presenceState
  /\ \A c \in Clients : Len(cursorMsgs[c]) < MaxQueue
  /\ cursorMsgs' =
       [c \in Clients |->
          IF collabStatus[c] = "SUBSCRIBED"
          THEN Append(cursorMsgs[c],
                      [kind |-> "cursor", userId |-> peer.key,
                       visible |-> visible,
                       x |-> IF visible THEN position.x ELSE NoPosition.x,
                       y |-> IF visible THEN position.y ELSE NoPosition.y,
                       timestamp |-> clock])
          ELSE cursorMsgs[c]]
  /\ UNCHANGED <<canvasVars, mergeVars, user, appVars, clock, nextSweep, cursorChannel,
                 channelReady, collabStatus, cursorVisible, lastCursorSent,
                 cursorLog, remoteCursors, presenceState, presenceUsers>>

InitRemote ==
  InitMounted({"c1"}, {}) /\ MergeIdle /\ SignedIn /\ CollabMounted({"c1"})

NextRemote ==
  \/ AdvanceClock
  \/ \E c \in Clients : CollabSubscribed(c)
  \/ \E c \in Clients : CollabDown(c)
  \/ \E peer \in Peers : PeerTrack(peer)
  \/ \E peer \in Peers : PeerUntrack(peer)
  \/ \E peer \in Peers, pointer \in PointerPoints :
       InWorkspace(pointer) /\ PeerBroadcast(peer, TRUE, pointer)
  \/ \E peer \in Peers : PeerBroadcast(peer, FALSE, NoPosition)
  \/ \E c \in Clients : HandleCursorBroadcast(c)
  \/ \E c \in Clients : HandlePresenceLeave(c)
  \/ \E c \in Clients : HandlePresenceSync(c)
  \/ \E c \in Clients : SweepCursors(c)

SpecRemote == InitRemote /\ [][NextRemote]_vars

\* The cursors of the receiving side alone, without the roster.
NextSweep ==
  \/ AdvanceClock
  \/ \E c \in Clients : CollabSubscribed(c)
  \/ \E c \in Clients : CollabDown(c)
  \/ \E peer \in Peers : PeerTrack(peer)
  \/ \E peer \in Peers, pointer \in PointerPoints :
       InWorkspace(pointer) /\ PeerBroadcast(peer, TRUE, pointer)
  \/ \E peer \in Peers : PeerBroadcast(peer, FALSE, NoPosition)
  \/ \E c \in Clients : HandleCursorBroadcast(c)
  \/ \E c \in Clients : SweepCursors(c)

\* Time passes however often events hold it up, an interval callback that is
\* due runs, and an event the channel has delivered is handled.
SpecSweepFair ==
  /\ InitRemote
  /\ [][NextSweep]_vars
  /\ SF_vars(AdvanceClock)
  /\ WF_vars(\E c \in Clients : SweepCursors(c))
  /\ WF_vars(\E c \in Clients : HandleCursorBroadcast(c))

\* =================================================================== claims
\* the items a list holds for an id
StoredFor(current, id) ==
  {current[i] : i \in {k \in DOMAIN current : current[k].id = id}}

\* client c handles change event e in this step
EventHandled(c, e) ==
  /\ e \in feed[c]
  /\ feed'[c] = feed[c] \ {e}
  /\ status'[c] = status[c]

\* C1: a change event of the active workspace for an id already stored
\* replaces the stored record exactly when the incoming updatedAt is
\* greater than or equal to the stored one; otherwise the store stays as
\* it was.  (Timestamps compared as the handlers parse them.)
C1_ReplaceIffNotOlder ==
  [][\A c \in Clients : \A e \in feed[c] :
       (/\ EventHandled(c, e)
        /\ e.new.canvas_id = ActiveCanvas
        /\ HasId(rectangles[c], e.new.id))
       => LET k == FindIndex(rectangles[c], e.new.id)
              incoming == MapRecordToRectangle(e.new)
          IN IF ParseTimestamp(incoming.updatedAt)
                  >= ParseTimestamp(rectangles[c][k].updatedAt)
             THEN rectangles'[c] = [rectangles[c] EXCEPT ![k] = incoming]
             ELSE rectangles'[c] = rectangles[c]]_vars

\* every change record of mRecs has been applied at least once
AllApplied ==
  \A i \in DOMAIN mRecs : \E k \in DOMAIN mApplied : mApplied[k] = i

UpdateResponseHandled(c, resp) ==
  /\ resp \in updateResps
  /\ resp.c = c
  /\ updateResps' = updateResps \ {resp}

\* C4: when the response of a durable update arrives and the store holds
\* a record of that id with a newer updatedAt, the stored record is not
\* replaced by the response.
C4_ResponseLosesToNewer ==
  [][\A c \in Clients : \A resp \in updateResps :
       (/\ UpdateResponseHandled(c, resp)
        /\ resp.ok
        /\ \E item \in StoredFor(rectangles[c], resp.id) :
             ParseTimestamp(item.updatedAt)
               > ParseTimestamp(resp.record.updated_at))
       => rectangles'[c] = rectangles[c]]_vars

Quiescent ==
  /\ loadReqs = {} /\ loadResps = {}
  /\ createReqs = {} /\ createResps = {}
  /\ updateReqs = {} /\ updateResps = {}
  /\ \A c \in Clients : feed[c] = {}

\* C3: two clients, both loaded and subscribed, have each ended a drag of the same
\* object at different positions, with write timestamps of different
\* milliseconds; once every response and change event has been delivered,
\* both clients show the object at the position written with the later
\* timestamp.
C3_ConvergesToLaterWrite ==
  \A u1, u2 \in sentUpdates :
    (/\ u1.c # u2.c
     /\ u1.id = u2.id
     /\ ParseTimestamp(u1.updated_at) < ParseTimestamp(u2.updated_at)
     /\ u1.x # u2.x \/ u1.y # u2.y
     /\ u1.live = Clients /\ u2.live = Clients
     /\ Quiescent
     /\ \A c \in Clients : status[c] = "subscribed")
    => \A c \in Clients :
         /\ HasId(rectangles[c], u2.id)
         /\ \A item \in StoredFor(rectangles[c], u2.id) :
              item.x = u2.x /\ item.y = u2.y

\* client c handles the response resp of a durable create
CreateResponseHandled(c, resp) ==
  /\ resp \in createResps
  /\ resp.c = c
  /\ createResps' = createResps \ {resp}

\* C6: after the confirmation of a durable create the object is stored
\* under the id it had while pending, at the same position and with the
\* same color.
C6_SameIdAfterConfirm ==
  [][\A c \in Clients : \A resp \in createResps :
       (/\ CreateResponseHandled(c, resp)
        /\ resp.ok)
       => \A p \in StoredFor(rectangles[c], resp.tempId) :
            \E q \in StoredFor(rectangles'[c], resp.tempId) :
              q.x = p.x /\ q.y = p.y /\ q.color = p.color]_vars

\* C8: when a durable update fails the optimistic position stays and a
\* reload of the workspace is requested.
C8_FailedUpdateReloads ==
  [][\A c \in Clients : \A resp \in updateResps :
       (/\ UpdateResponseHandled(c, resp)
        /\ ~resp.ok)
       => /\ rectangles'[c] = rectangles[c]
          /\ [c |-> c] \in loadReqs']_vars

\* client c handles the response resp of loadRectangles
LoadResponseHandled(c, resp) ==
  /\ resp \in loadResps
  /\ resp.c = c
  /\ loadResps' = loadResps \ {resp}

\* C9: an optimistic object created while the load was under way is still
\* in the store after the load response has been applied.
C9_LoadKeepsOptimistic ==
  [][\A c \in Clients : \A resp \in loadResps :
       (/\ LoadResponseHandled(c, resp)
        /\ resp.ok)
       => \A i \in DOMAIN rectangles[c] :
            IsTempId(rectangles[c][i].id)
              => HasId(rectangles'[c], rectangles[c][i].id)]_vars

\* C10: when the channel becomes subscribed after an error or a close, a
\* load of the workspace is requested.
C10_ResubscribeReloads ==
  [][\A c \in Clients :
       (/\ status[c] \in {"error", "closed"}
        /\ status'[c] = "subscribed")
       => [c |-> c] \in loadReqs']_vars


\* C7: when the durable create of a createAt fails, the optimistic object
\* of that create is removed from the store and every other object stays
\* as it was.
C7_FailedCreateRollsBack ==
  [][\A c \in Clients : \A resp \in createResps :
       (/\ CreateResponseHandled(c, resp)
        /\ ~resp.ok)
       => rectangles'[c] =
            SelectSeq(rectangles[c], LAMBDA item : item.id # resp.tempId)]_vars


\* C11: every dragEnd on an object of the store, confirmed or still
\* pending, issues one durable-update request that carries the final
\* clamped position and a fresh updatedAt.
C11_DragEndIssuesUpdate ==
  [][\A c \in Clients : \A i \in DOMAIN rectangles[c], p \in DragPoints :
       OnDragEnd(c, rectangles[c][i].id, p)
       => /\ Cardinality(updateReqs' \ updateReqs) <= 1
          /\ \E req \in updateReqs' :
               /\ req.c = c
               /\ req.id = rectangles[c][i].id
               /\ req.x = NextPosition(rectangles[c], req.id, p).x
               /\ req.y = NextPosition(rectangles[c], req.id, p).y
               /\ req.updated_at = ToISOString(now)]_vars

\* C13: applying a change record that has been applied before, whatever
\* was applied in between and through either handler, leaves the store as
\* it is.
C13_ReapplyChangesNothing ==
  [][\A i \in DOMAIN mRecs :
       (/\ mApplied' = Append(mApplied, i)
        /\ \E k \in DOMAIN mApplied : mRecs[mApplied[k]] = mRecs[i])
       => mStore' = mStore]_vars

\* a record was applied, then a newer one that replaced it, then the
\* first one again, and the newer one is still the one stored
C13_Witness ==
  /\ mApplied = <<1, 2, 1>>
  /\ ParseTimestamp(mRecs[1].updated_at) < ParseTimestamp(mRecs[2].updated_at)
  /\ mRecs[1].x # mRecs[2].x
  /\ mStore0 = <<OtherRectangle>>
  /\ mStore = <<OtherRectangle, MapRecordToRectangle(mRecs[2])>>

C12_WritesOnlyAtDragEnd ==
  [][\A c \in Clients : \A i \in DOMAIN rectangles[c], p \in DragPoints :
       LET id == rectangles[c][i].id
       IN /\ (OnDragMove(c, id, p) \/ LegacyOnDragMove(c, id, p))
               => /\ updateReqs' = updateReqs
                  /\ createReqs' = createReqs
          /\ (\E req \in updateReqs' \ updateReqs : req.c = c /\ req.id = id)
               => \E q \in DragPoints :
                    \/ OnDragEnd(c, id, q)
                    \/ PresenceOnDragEnd(c, id, q)
                    \/ LegacyOnDragEnd(c, id, q)]_vars


\* C15: at every moment at which no sweep is due, every cursor of the visible
\* remote-cursor set was last seen at most 5000 ms ago.
C15_VisibleCursorsFresh ==
  ~SweepDue
    => \A c \in Clients : \A cu \in RemoteCursorPositions(remoteCursors[c]) :
         clock - cu.updatedAt <= CURSOR_TTL


\* the times of a last message after which a sweep still runs within the
\* observed time
SweepableTimes ==
  {t \in 0..MaxClock :
     t % RemoteStep = 0 /\ t + CURSOR_TTL + SWEEP_INTERVAL <= MaxClock}

HasCursorOf(c, u, t) ==
  \E cu \in remoteCursors[c] : cu.userId = u /\ cu.updatedAt = t

\* C16: a stored remote cursor that gets no newer position is eventually
\* removed, hide message or not; and a sweep removes no cursor that was last
\* seen within the 5000 ms TTL.
C16_SweepRemovesOnlyStale ==
  /\ [][\A c \in Clients :
          SweepCursors(c)
            => \A cu \in remoteCursors[c] :
                 clock - cu.updatedAt <= CURSOR_TTL => cu \in remoteCursors'[c]]_vars
  /\ \A u \in {"u2"}, t \in SweepableTimes :
       HasCursorOf("c1", u, t) ~> ~HasCursorOf("c1", u, t)

\* a sweep is due on a cursor that is older than the TTL and on its sender's
\* presence is still tracked
C16_Witness ==
  /\ clock = nextSweep["c1"]
  /\ cursorMsgs["c1"] = <<>>
  /\ \E cu \in remoteCursors["c1"] :
       cu.updatedAt \in SweepableTimes /\ clock - cu.updatedAt > CURSOR_TTL


\* the cursor-position broadcasts of a client, in the order sent
PositionsSent(c) == SelectSeq(cursorLog[c], LAMBDA entry : entry.kind = "position")

\* C17: any two consecutive cursor-position broadcasts of one client are at
\* least 30 ms apart, whatever pointer moves, leaves and re-entries happen.
C17_PositionsThrottled ==
  \A c \in Clients : \A i \in 1..(Len(PositionsSent(c)) - 1) :
    PositionsSent(c)[i + 1].at - PositionsSent(c)[i].at >= CURSOR_THROTTLE


\* what the pointer handlers of a client sent, in the order sent
SentByPointer(c) == SelectSeq(cursorLog[c], LAMBDA entry : entry.by = "pointer")

LastSent(c) == cursorLog[c][Len(cursorLog[c])]

\* C18 as stated: a pointer leave after a position broadcast sends exactly one
\* not-visible message, and no client sends two not-visible messages without a
\* position broadcast between them.
C18_OneHidePerLeave ==
  /\ [][\A c \in Clients :
          (/\ HandlePointerLeave(c)
           /\ cursorLog[c] # <<>>
           /\ LastSent(c).kind = "position")
            => /\ Len(cursorLog'[c]) = Len(cursorLog[c]) + 1
               /\ cursorLog'[c][Len(cursorLog'[c])].kind = "hide"]_vars
  /\ [](\A c \in Clients : \A i \in 1..(Len(cursorLog[c]) - 1) :
          ~(cursorLog[c][i].kind = "hide" /\ cursorLog[c][i + 1].kind = "hide"))

\* C18, amended: while the channel is subscribed, a pointer leave after a
\* position broadcast sends exactly one not-visible message, and the pointer
\* handlers send no two not-visible messages without a position broadcast
\* between them.
C18_OneHidePerLeaveWhileSubscribed ==
  /\ [][\A c \in Clients :
          (/\ HandlePointerLeave(c)
           /\ cursorChannel[c] # 0
           /\ channelReady[c]
           /\ cursorLog[c] # <<>>
           /\ LastSent(c).kind = "position")
            => /\ Len(cursorLog'[c]) = Len(cursorLog[c]) + 1
               /\ cursorLog'[c][Len(cursorLog'[c])].kind = "hide"]_vars
  /\ [](\A c \in Clients : \A i \in 1..(Len(SentByPointer(c)) - 1) :
          ~(/\ SentByPointer(c)[i].kind = "hide"
            /\ SentByPointer(c)[i + 1].kind = "hide"))

\* the pointer has left twice after one position broadcast, and one
\* not-visible message has been sent
C18_Witness ==
  /\ Len(cursorLog["c1"]) = 2
  /\ cursorLog["c1"][1].kind = "position"
  /\ cursorLog["c1"][2].kind = "hide"
  /\ cursorLog["c1"][2].by = "pointer"
  /\ cursorLog["c1"][2].at < clock
  /\ ~cursorVisible["c1"]
  /\ channelReady["c1"]


\* C19: the teardown of a subscribed presence/cursor channel sends a
\* not-visible message on it and then removes it, and nothing is sent on a
\* channel after it has been removed.
C19_HideBeforeRemove ==
  /\ [][\A c \in Clients :
          (CollabTeardown(c) /\ collabStatus[c] = "SUBSCRIBED")
            => cursorLog'[c] =
                 cursorLog[c] \o
                   <<[kind |-> "hide", channel |-> cursorChannel[c],
                      at |-> clock, by |-> "cleanup"],
                     [kind |-> "removed", channel |-> cursorChannel[c],
                      at |-> clock, by |-> "cleanup"]>>]_vars
  /\ [](\A c \in Clients : \A i, j \in DOMAIN cursorLog[c] :
          (i < j /\ cursorLog[c][i].kind = "removed")
            => cursorLog[c][j].channel # cursorLog[c][i].channel)

\* a subscribed channel has been torn down after a position broadcast, and
\* the next channel has been used
C19_Witness ==
  /\ Len(cursorLog["c1"]) = 4
  /\ cursorLog["c1"][1].kind = "position"
  /\ cursorLog["c1"][2].kind = "hide"
  /\ cursorLog["c1"][2].by = "cleanup"
  /\ cursorLog["c1"][3].kind = "removed"
  /\ cursorLog["c1"][4].kind = "position"
  /\ cursorLog["c1"][4].channel = 2


\* C20: the presence roster of a client has at most one entry for a userId,
\* however many connections of that user are in the presence state.
C20_RosterOnePerUser ==
  \A c \in Clients : \A i, j \in DOMAIN presenceUsers[c] :
    presenceUsers[c][i].id = presenceUsers[c][j].id => i = j

\* the user of c1 has two connections in the presence state, another user
\* has one, and c1 has computed its roster from them
C20_Witness ==
  /\ presenceState =
       {[key |-> "u1", conn |-> "c1"], [key |-> "u1", conn |-> "p1"],
        [key |-> "u2", conn |-> "p2"]}
  /\ presenceUsers["c1"] =
       <<[id |-> "u1", isSelf |-> TRUE], [id |-> "u2", isSelf |-> FALSE]>>


InRoster(c, u) == \E k \in DOMAIN presenceUsers[c] : presenceUsers[c][k].id = u

InRosterAfter(c, u) ==
  \E k \in DOMAIN presenceUsers'[c] : presenceUsers'[c][k].id = u

\* C21 as stated: once a leave notification for user u has been processed, u
\* is not in the roster and has no entry in the remote-cursor set.
C21_LeaveRemovesUser ==
  [][\A c \in Clients :
       HandlePresenceLeave(c)
         => /\ ~InRosterAfter(c, Head(cursorMsgs[c]).userId)
            /\ \A cu \in remoteCursors'[c] :
                 cu.userId # Head(cursorMsgs[c]).userId]_vars

\* C21, amended: once a leave notification for user u has been processed, u
\* has no entry in the remote-cursor set, and u is in the roster exactly if
\* a connection of u is still in the presence state.
C21_LeaveRemovesLastConnection ==
  [][\A c \in Clients :
       HandlePresenceLeave(c)
         => /\ InRosterAfter(c, Head(cursorMsgs[c]).userId)
                 <=> \E session \in presenceState :
                       session.key = Head(cursorMsgs[c]).userId
            /\ \A cu \in remoteCursors'[c] :
                 cu.userId # Head(cursorMsgs[c]).userId]_vars

\* the leave of the last connection of u2 is about to be processed by c1,
\* which has u2 in its roster and a cursor of u2
C21_Witness ==
  /\ collabStatus["c1"] = "SUBSCRIBED"
  /\ cursorMsgs["c1"] # <<>>
  /\ Head(cursorMsgs["c1"]).kind = "leave"
  /\ Head(cursorMsgs["c1"]).userId = "u2"
  /\ InRoster("c1", "u2")
  /\ \E cu \in remoteCursors["c1"] : cu.userId = "u2"
  /\ \A session \in presenceState : session.key # "u2"


\* C22: while a client is connected to the presence channel, its roster has
\* an entry for its own user, that entry is flagged self, and no entry of
\* another user is flagged self.
C22_SelfInRoster ==
  \A c \in Clients :
    collabStatus[c] = "SUBSCRIBED"
      => /\ \E k \in DOMAIN presenceUsers[c] :
              presenceUsers[c][k].id = user[c] /\ presenceUsers[c][k].isSelf
         /\ \A k \in DOMAIN presenceUsers[c] :
              presenceUsers[c][k].isSelf => presenceUsers[c][k].id = user[c]


\* C23: a change event whose record belongs to another workspace than the
\* active one leaves the store of the client unchanged.
C23_ForeignEventDiscarded ==
  [][\A c \in Clients : \A payload \in feed[c] :
       (/\ payload.new # NoRow
        /\ payload.new.canvas_id # ActiveCanvas
        /\ \/ HandleInsertEvent(c, payload)
           \/ HandleUpdateEvent(c, payload))
         => rectangles'[c] = rectangles[c]]_vars

\* an event of another workspace is about to be handled by a client that has
\* loaded its objects
C23_Witness ==
  /\ rectangles["c1"] = <<MapRecordToRectangle(InitialRow)>>
  /\ [kind |-> "INSERT", new |-> ForeignRecord] \in feed["c1"]
  /\ [kind |-> "UPDATE", new |-> ForeignRecord] \in feed["c1"]

\* C24: a change notification without record, or whose record has no id or
\* no timestamps, leaves the store of the client unchanged.
C24_MalformedEventDropped ==
  [][\A c \in Clients : \A payload \in feed[c] :
       (/\ Malformed(payload.new)
        /\ \/ HandleInsertEvent(c, payload)
           \/ HandleUpdateEvent(c, payload))
         => rectangles'[c] = rectangles[c]]_vars


\* C25: when the change-feed channel of a client reports an error or Closed,
\* the store of the client is left as it is and a connectivity indicator is
\* set.
C25_ChannelDownKeepsStore ==
  [][\A c \in Clients, s \in {"error", "closed"} :
       ChannelDown(c, s)
         => /\ rectangles'[c] = rectangles[c]
            /\ syncError'[c] \in RealtimeErrors]_vars

\* the channel of a client that shows a rectangle has gone down, and the
\* client shows the rectangle and the connection error
C25_Witness ==
  /\ status["c1"] \in {"error", "closed"}
  /\ syncError["c1"] \in RealtimeErrors
  /\ rectangles["c1"] = <<MapRecordToRectangle(InitialRow)>>


IdsOf(list) == [i \in DOMAIN list |-> list[i].id]

\* C26: two clients that started from the same store and have handled the
\* same change events, in whatever order each received them, list the objects
\* in the same order.
C26_SameOrderAcrossClients ==
  (\A c \in Clients : feed[c] = {})
    => IdsOf(rectangles["c1"]) = IdsOf(rectangles["c2"])


CenteredAndClamped(v) == Max(0, Min(v - 50, 2900))

\* the step adds to the list of c exactly one 100x100 rectangle centered on
\* p and clamped into the workspace
AddsCenteredObject(c, p) ==
  /\ Len(rectangles'[c]) = Len(rectangles[c]) + 1
  /\ SubSeq(rectangles'[c], 1, Len(rectangles[c])) = rectangles[c]
  /\ LET r == rectangles'[c][Len(rectangles'[c])]
     IN /\ r.width = 100
        /\ r.height = 100
        /\ r.x = CenteredAndClamped(p.x)
        /\ r.y = CenteredAndClamped(p.y)

\* C27: a create at any point p adds at once exactly one 100x100 object whose
\* x is p.x - 50 clamped to [0, 2900] and whose y is p.y - 50 clamped to
\* [0, 2900].
C27_CreateCentersAndClamps ==
  [][\A c \in Clients, p \in ClickPoints :
       \/ selectedId[c] = NoId /\ HandlePanEnd(c, p)
       \/ selectedId[c] = NoId /\ PresenceHandlePanEnd(c, p)
       \/ LegacyHandleBackgroundClick(c, p)
       => AddsCenteredObject(c, p)]_vars


\* the number of the create request req among the requests of its client
CreateNumber(req) ==
  Cardinality({q \in sentCreates : q.c = req.c /\ q.tempId.n <= req.tempId.n})

\* C28: the k-th object a client creates gets the palette index
\* (k - 1) mod 8, whatever became of the earlier creates, and the color
\* index of a client is always in 0..7.
C28_RoundRobinColors ==
  /\ \A req \in sentCreates : req.color = (CreateNumber(req) - 1) % 8
  /\ \A c \in Clients : \A i \in DOMAIN rectangles[c] :
       IsTempId(rectangles[c][i].id)
         => \E req \in sentCreates :
              /\ req.tempId = rectangles[c][i].id
              /\ rectangles[c][i].color = req.color
  /\ \A c \in Clients : colorIndex[c] \in 0..7

\* the ninth create of a client has been sent with the first color again,
\* after one create was rolled back and others were confirmed
C28_Witness ==
  /\ \E req \in sentCreates :
       req.c = "c1" /\ CreateNumber(req) = 9 /\ req.color = 0
  /\ Len(rectangles["c1"]) = 8
  /\ rows # {InitialRow}


\* C29: a durable update of an id whose row belongs to another workspace
\* than the caller's is answered with an error and changes no row.
C29_ForeignUpdateFails ==
  [][\A req \in updateReqs :
       (/\ UpdateRectangle(req)
        /\ \E row \in rows : row.id = req.id /\ row.canvas_id # req.canvas_id)
         => /\ rows' = rows
            /\ \E resp \in updateResps' \ updateResps :
                 resp.id = req.id /\ ~resp.ok]_vars


\* the step changes, in the list of c, nothing but the position and the
\* updatedAt of the rectangle id
MovesOnly(c, id) ==
  /\ DOMAIN rectangles'[c] = DOMAIN rectangles[c]
  /\ \A j \in DOMAIN rectangles[c] :
       IF rectangles[c][j].id = id
       THEN rectangles'[c][j] =
              [rectangles[c][j] EXCEPT !.x = rectangles'[c][j].x,
                                       !.y = rectangles'[c][j].y,
                                       !.updatedAt = rectangles'[c][j].updatedAt]
       ELSE rectangles'[c][j] = rectangles[c][j]

\* C30: a drag move or a drag end on a rectangle changes only the position
\* and updatedAt of that rectangle in the store; and while a durable write
\* for one rectangle is in flight, a drag end on another rectangle of the
\* store can be taken and issues its own durable write.
C30_DragsIndependent ==
  /\ [][\A c \in Clients : \A i \in DOMAIN rectangles[c], p \in DragPoints :
          (OnDragMove(c, rectangles[c][i].id, p)
             \/ OnDragEnd(c, rectangles[c][i].id, p))
            => MovesOnly(c, rectangles[c][i].id)]_vars
  /\ [](\A c \in Clients : \A i, j \in DOMAIN rectangles[c], p \in DragPoints :
          (/\ inputs < MaxInputs
           /\ rectangles[c][i].id \in pendingUpdates[c]
           /\ rectangles[c][j].id # rectangles[c][i].id)
            => /\ ENABLED OnDragMove(c, rectangles[c][j].id, p)
               /\ ENABLED OnDragEnd(c, rectangles[c][j].id, p))
  /\ [][\A c \in Clients : \A i \in DOMAIN rectangles[c], p \in DragPoints :
          (/\ OnDragEnd(c, rectangles[c][i].id, p)
           /\ ~IsTempId(rectangles[c][i].id))
            => \E req \in updateReqs' :
                 /\ req.c = c
                 /\ req.id = rectangles[c][i].id
                 /\ req.updated_at = ToISOString(now)]_vars

\* the durable writes of two rectangles of one client are in flight at once,
\* each rectangle at the position of its own drag
C30_Witness ==
  /\ pendingUpdates["c1"] = {InitialRow.id, SecondRow.id}
  /\ \E q1, q2 \in updateReqs : q1.id = InitialRow.id /\ q2.id = SecondRow.id
  /\ Len(rectangles["c1"]) = 2
  /\ rectangles["c1"][1].id = InitialRow.id
  /\ rectangles["c1"][2].id = SecondRow.id
  /\ rectangles["c1"][1].x # rectangles["c1"][2].x
  /\ rectangles["c1"][2].color = 1


\* C31: the remote-cursor set of a client never holds an entry for the
\* client's own user, whatever cursor messages carry that user's id.
C31_NoOwnCursor ==
  \A c \in Clients : \A cu \in remoteCursors[c] : cu.userId # user[c]

\* a position message that carries the id of c1's own user is about to be
\* handled by c1, which shows the cursor of another user
C31_Witness ==
  /\ collabStatus["c1"] = "SUBSCRIBED"
  /\ cursorMsgs["c1"] # <<>>
  /\ Head(cursorMsgs["c1"]).kind = "cursor"
  /\ Head(cursorMsgs["c1"]).userId = user["c1"]
  /\ Head(cursorMsgs["c1"]).visible
  /\ \E cu \in remoteCursors["c1"] : cu.userId = "u2"


\* C32: a click on the empty background while an object is selected clears
\* the selection and creates no object; while nothing is selected it adds
\* exactly one object and selects it.
C32_ClickDeselectsOrCreates ==
  [][\A c \in Clients, p \in ClickPoints :
       (HandlePanEnd(c, p) \/ PresenceHandlePanEnd(c, p))
         => IF selectedId[c] # NoId
            THEN /\ selectedId'[c] = NoId
                 /\ rectangles'[c] = rectangles[c]
                 /\ createReqs' = createReqs
            ELSE /\ Len(rectangles'[c]) = Len(rectangles[c]) + 1
                 /\ SubSeq(rectangles'[c], 1, Len(rectangles[c])) = rectangles[c]
                 /\ selectedId'[c] = rectangles'[c][Len(rectangles'[c])].id]_vars


\* a client has created one object by a click and cleared the selection by
\* the next click, which created nothing
C32_Witness ==
  /\ inputs = 2
  /\ Cardinality(sentCreates) = 1
  /\ Len(rectangles["c1"]) = 1
  /\ IsTempId(rectangles["c1"][1].id)
  /\ selectedId["c1"] = NoId
  /\ createResps = {}


\* C33: whatever the interleaving of local creates, create responses, change
\* events and loads, no two entries of the store of a client have the same
\* id.
C33_UniqueIds ==
  \A c \in Clients : \A i, j \in DOMAIN rectangles[c] :
    rectangles[c][i].id = rectangles[c][j].id => i = j


\* C34: once the response to a durable create, success or failure, has been
\* processed, the store of the client holds no object under the temporary
\* id of that create.
C34_NoTempAfterResponse ==
  [][\A c \in Clients : \A resp \in createResps :
       CreateResponseHandled(c, resp)
         => ~HasId(rectangles'[c], resp.tempId)]_vars


\* C35: in every reachable state the selected id of a client is null or the
\* id of an object of the store of that client.
C35_SelectionInStore ==
  \A c \in Clients :
    selectedId[c] = NoId \/ HasId(rectangles[c], selectedId[c])


\* C36: the resolution of a durable create, success or failure, changes the
\* selected id of the client only if the pending object of that create is
\* the selected one.
C36_ResolutionKeepsOtherSelection ==
  [][\A c \in Clients : \A resp \in createResps :
       (/\ CreateResponseHandled(c, resp)
        /\ selectedId[c] # resp.tempId)
         => selectedId'[c] = selectedId[c]]_vars


\* C37: the release of a press on the background during which the pointer was
\* more than 2 px away from the press on either axis creates no object and
\* leaves the selection as it is; an object is created only by a release
\* without such a movement.
C37_PanCreatesNothing ==
  /\ [][\A c \in Clients, target \in ReleaseTargets, p \in ClickPoints :
          (HandlePanRelease(c, target, p) /\ panReach[c] > 2)
            => /\ rectangles'[c] = rectangles[c]
               /\ selectedId'[c] = selectedId[c]
               /\ createReqs' = createReqs]_vars
  /\ [][\A req \in createReqs' \ createReqs :
          isPanning[req.c] /\ ~isPanning'[req.c] /\ panReach[req.c] <= 2]_vars

\* the pointer has moved 3 px along one axis during a press, with one object
\* selected, and the button is still down
C37_Witness ==
  /\ isPanning["c1"]
  /\ panReach["c1"] = 3
  /\ selectedId["c1"] # NoId
  /\ HasId(rectangles["c1"], selectedId["c1"])


C39_OneCanvasPerName ==
  /\ \A r1, r2 \in canvases : r1.name = r2.name => r1.id = r2.id
  /\ \A c1, c2 \in Clients :
       (/\ ensureCalls[c1].pc = "idle" /\ ensureCalls[c2].pc = "idle"
        /\ canvasError[c1] = NoCanvasError /\ canvasError[c2] = NoCanvasError
        /\ canvasId[c1] # NoCanvas /\ canvasId[c2] # NoCanvas
        /\ canvasName[c1] = canvasName[c2])
         => canvasId[c1] = canvasId[c2]

\* C40: once a notification of onAuthStateChange has been applied, the session
\* and user AuthProvider exposes are those of the latest notification, also
\* after the result of the initial getSession call has arrived, and nothing is
\* applied after unmount.
C40_LatestNotificationExposed ==
  [][/\ lastNotified'.applied
          => /\ authSession' = lastNotified'.session
             /\ authUser' = UserOfSession(lastNotified'.session)
     /\ ~isMounted => UNCHANGED <<authSession, authUser, authLoading>>]_vars
====
